---- MODULE Spec2Model ----
(***************************************************************************)
(* Model of the discovery-and-filtering engine of New-Package-Mafia:       *)
(* getRecentNpmPackages (src/src/get-recent-npm.ts, paged version, lines   *)
(* 355-559) with its change-feed paginator, eligibility resolver, filter   *)
(* chain and per-page worker pool.                                         *)
(*                                                                         *)
(* JavaScript runs one continuation at a time: everything between two      *)
(* awaits is one atomic step.  Each action below is one such continuation. *)
(* Text is a sequence of one-character strings.                            *)
(***************************************************************************)
EXTENDS Integers, Sequences, FiniteSets, TLC

VARIABLES
    opts,        \* the options object of this run (budget and FilterSpec)
    pc,          \* orchestrator: "idle" | "fetching" | "workers" | "returned" | "aborted"
    results,     \* results: PackageInfo[]
    lastSeq,     \* lastSeq: string | undefined
    pageNumber,  \* pageNumber
    names,       \* names of the current page
    newLastSeq,  \* lastSeq of the current page's response
    index,       \* shared index into names
    wpc,         \* per worker: "none" | "meta" | "lines" | "done"
    wcur,        \* per worker: currentIndex it is evaluating
    winfo,       \* per worker: info held across the line-count await
    changeLog,   \* the registry's change log during this run
    fetchLog,    \* history: one entry per change-feed request, in order
    takenLog,    \* history: one entry per candidate taken by a worker
    unit         \* a single call of one function run on its own; NoUnit during a run

vars == <<opts, pc, results, lastSeq, pageNumber, names, newLastSeq, index,
          wpc, wcur, winfo, changeLog, fetchLog, takenLog, unit>>

----------------------------------------------------------------------------
(* Bounds of the model *)

MaxRows == 3            \* rows in one change-feed response
MaxPagesBound == 3      \* largest maxPages option
MaxResultsBound == 2    \* largest maxResults option
MaxConcurrency == 2     \* largest concurrency option

(* Program constants *)

MS_PER_DAY == 24 * 60 * 60 * 1000

None == <<>>
Some(x) == <<x>>

Min(a, b) == IF a < b THEN a ELSE b

----------------------------------------------------------------------------
(* Text: a string is a sequence of one-character strings.  The token       *)
(* "_design/" stands for the eight characters of that prefix.              *)

Letters == {"a", "b", "c", "A", "B"}
WhiteSpace == {" ", "\n", "\t"}

\* String.prototype.toLowerCase, on one character
LowerChar(c) ==
    CASE c = "A" -> "a"
      [] c = "B" -> "b"
      [] c = "D" -> "d"
      [] c = "J" -> "j"
      [] c = "S" -> "s"
      [] c = "T" -> "t"
      [] OTHER -> c

ToLowerCase(s) == [i \in 1..Len(s) |-> LowerChar(s[i])]

\* \w of a JavaScript regular expression
IsWordChar(c) == c \in Letters

\* String.prototype.trim
RECURSIVE TrimLeft(_)
TrimLeft(s) ==
    IF s # <<>> /\ Head(s) \in WhiteSpace THEN TrimLeft(Tail(s)) ELSE s

RECURSIVE TrimRight(_)
TrimRight(s) ==
    IF s # <<>> /\ s[Len(s)] \in WhiteSpace
    THEN TrimRight(SubSeq(s, 1, Len(s) - 1))
    ELSE s

Trim(s) == TrimRight(TrimLeft(s))

\* t occurs in s starting at position i
OccursAt(s, t, i) ==
    /\ i >= 1
    /\ i + Len(t) - 1 <= Len(s)
    /\ \A k \in 1..Len(t) : s[i + k - 1] = t[k]

\* String.prototype.includes
Includes(s, t) == \E i \in 1..(Len(s) + 1) : OccursAt(s, t, i)

\* \b of a JavaScript regular expression: between positions i-1 and i of s
WordBoundaryAt(s, i) ==
    LET before == i - 1 >= 1 /\ i - 1 <= Len(s) /\ IsWordChar(s[i - 1])
        after == i >= 1 /\ i <= Len(s) /\ IsWordChar(s[i])
    IN before # after

\* WordBoundaryRegexTest for a pattern without the two \b
WordBoundaryRegexTestNoBoundary(text, term, ignoreCase) ==
    LET hay == IF ignoreCase THEN ToLowerCase(text) ELSE text
        needle == IF ignoreCase THEN ToLowerCase(term) ELSE term
    IN \E i \in 1..(Len(text) + 1) : OccursAt(hay, needle, i)

\* new RegExp(`\\b${escapeRegex(term)}\\b`, flag).test(text)
WordBoundaryRegexTest(text, term, ignoreCase) ==
    LET hay == IF ignoreCase THEN ToLowerCase(text) ELSE text
        needle == IF ignoreCase THEN ToLowerCase(term) ELSE term
    IN \E i \in 1..(Len(text) + 1) :
          /\ OccursAt(hay, needle, i)
          /\ WordBoundaryAt(text, i)
          /\ WordBoundaryAt(text, i + Len(term))

\* searchString.trim().split(/\s+/).filter(term => term.length > 0)
RECURSIVE SplitOnWhiteSpace(_, _)
SplitOnWhiteSpace(s, cur) ==
    IF s = <<>> THEN <<cur>>
    ELSE IF Head(s) \in WhiteSpace
         THEN <<cur>> \o SplitOnWhiteSpace(TrimLeft(s), <<>>)
         ELSE SplitOnWhiteSpace(Tail(s), Append(cur, Head(s)))

parseSearchTerms(searchString) ==
    SelectSeq(SplitOnWhiteSpace(Trim(searchString), <<>>), LAMBDA term : Len(term) > 0)

\* matchesSearch with terms.some in place of terms.every
matchesSearchAnyTerm(description, terms, partialMatch, caseInsensitive) ==
    IF Len(terms) = 0 THEN TRUE
    ELSE IF Len(description) = 0 \/ Len(Trim(description)) = 0 THEN FALSE
    ELSE LET searchableDescription ==
                 IF caseInsensitive THEN ToLowerCase(description) ELSE description
         IN \E k \in 1..Len(terms) :
               LET searchTerm ==
                       IF caseInsensitive THEN ToLowerCase(terms[k]) ELSE terms[k]
               IN IF partialMatch
                  THEN Includes(searchableDescription, searchTerm)
                  ELSE WordBoundaryRegexTest(description, searchTerm, caseInsensitive)

\* the exported matchesSearch(description, { terms, partialMatch, caseInsensitive })
matchesSearch(description, terms, partialMatch, caseInsensitive) ==
    IF Len(terms) = 0 THEN TRUE
    ELSE IF Len(description) = 0 \/ Len(Trim(description)) = 0 THEN FALSE
    ELSE LET searchableDescription ==
                 IF caseInsensitive THEN ToLowerCase(description) ELSE description
         IN \A k \in 1..Len(terms) :
               LET searchTerm ==
                       IF caseInsensitive THEN ToLowerCase(terms[k]) ELSE terms[k]
               IN IF partialMatch
                  THEN Includes(searchableDescription, searchTerm)
                  ELSE WordBoundaryRegexTest(description, searchTerm, caseInsensitive)

\* description.replace(/[\r\n\t]+/g, " ").trim()
RECURSIVE CollapseBreaks(_)
CollapseBreaks(s) ==
    IF s = <<>> THEN <<>>
    ELSE IF Head(s) \in {"\n", "\t"}
         THEN LET rest == CollapseBreaks(Tail(s))
              IN IF Tail(s) # <<>> /\ Tail(s)[1] \in {"\n", "\t"}
                 THEN rest
                 ELSE <<" ">> \o rest
         ELSE <<Head(s)>> \o CollapseBreaks(Tail(s))

NormalizeDescription(s) == Trim(CollapseBreaks(s))

----------------------------------------------------------------------------
(* The registry the run talks to: package documents by id.                 *)

Now == 10 * MS_PER_DAY      \* Date.now() captured once per run

PkgAB == <<"a", "b">>
PkgC == <<"c">>
PkgABC == <<"a", "b", "c">>
PkgOld == <<"b">>
PkgThrow == <<"c", "a">>
PkgGone == <<"b", "a">>
DesignDoc == <<"_design/", "a">>
NoId == <<>>

Tarball(url, download, extract, lines) ==
    [url |-> url, download |-> download, extract |-> extract, lines |-> lines]

Version(v, bin, description, tarball) ==
    [version |-> v, bin |-> bin, description |-> description, tarball |-> tarball]

CreatedAt(ms) == [kind |-> "date", ms |-> ms]
CreatedMissing == [kind |-> "missing", ms |-> 0]
CreatedInvalid == [kind |-> "invalid", ms |-> 0]

Doc(fetch, versions, created, latest, description) ==
    [fetch |-> fetch, versions |-> versions, created |-> created,
     latest |-> latest, description |-> description]

NotFoundDoc == Doc("http_error", <<>>, CreatedMissing, None, <<>>)

Registry ==
    (PkgAB :> Doc("ok",
                  <<Version("1.0.0", 1, <<>>, Tarball(TRUE, "ok", "ok", 2))>>,
                  CreatedAt(Now - MS_PER_DAY), Some("1.0.0"), <<>>))
    @@ (PkgC :> Doc("ok",
                    <<Version("0.1.0", 1, <<>>, Tarball(TRUE, "ok", "ok", 2)),
                      Version("0.2.0", 0, <<"a", "b">>, Tarball(TRUE, "ok", "ok", 1))>>,
                    CreatedAt(Now), None, <<"A", "B", "\n", "\t", "c", " ">>))
    @@ (PkgABC :> Doc("ok",
                      <<Version("2.0.0", 1, <<>>, Tarball(TRUE, "http_error", "ok", 2))>>,
                      CreatedAt(Now - 7 * MS_PER_DAY), Some("2.0.0"), <<>>))
    @@ (PkgOld :> Doc("ok",
                      <<Version("1.0.0", 1, <<"a", "b">>, Tarball(TRUE, "ok", "ok", 2))>>,
                      CreatedAt(Now - 7 * MS_PER_DAY - 1), Some("1.0.0"), <<"a", "b">>))
    @@ (PkgThrow :> Doc("throw", <<>>, CreatedMissing, None, <<>>))

\* what GET registry.npmjs.org/<id> answers
RegistryDoc(id) == IF id \in DOMAIN Registry THEN Registry[id] ELSE NotFoundDoc

\* versionsObj[v], or None when the map has no such key
VersionData(doc, v) ==
    LET hits == SelectSeq(doc.versions, LAMBDA d : d.version = v)
    IN IF Len(hits) = 0 THEN None ELSE Some(hits[1])

----------------------------------------------------------------------------
(* Change-Feed Paginator: getRecentPackageNames                            *)

StartsWithDesign(id) == Len(id) > 0 /\ id[1] = "_design/"

\* the loop over data.results: skip rows with no id and design documents,
\* keep the first occurrence of every other id
RECURSIVE UniqueNames(_, _, _)
UniqueNames(rows, seen, acc) ==
    IF rows = <<>> THEN acc
    ELSE LET id == Head(rows)
         IN IF id = NoId THEN UniqueNames(Tail(rows), seen, acc)
            ELSE IF StartsWithDesign(id) THEN UniqueNames(Tail(rows), seen, acc)
            ELSE IF id \notin seen
                 THEN UniqueNames(Tail(rows), seen \cup {id}, Append(acc, id))
                 ELSE UniqueNames(Tail(rows), seen, acc)

\* getRecentPackageNames without the seen set
getRecentPackageNamesNoSeenSet(response) ==
    [names |-> SelectSeq(response.rows,
                         LAMBDA id : id # NoId /\ ~StartsWithDesign(id)),
     lastSeq |-> response.last_seq]

\* the value the promise of getRecentPackageNames resolves to
getRecentPackageNames(response) ==
    [names |-> UniqueNames(response.rows, {}, <<>>), lastSeq |-> response.last_seq]

----------------------------------------------------------------------------
(* Eligibility Resolver: getIfFirstVersionRecent                           *)

Null == [null |-> TRUE]

PackageInfo(name, version, description, publishedAt, numberOfVersions, hasBin) ==
    [name |-> name, version |-> version, description |-> description,
     publishedAt |-> publishedAt, numberOfVersions |-> numberOfVersions,
     hasBin |-> hasBin, jsLines |-> None]

\* OutsideWindow that also turns away the age of exactly the window
OutsideWindowExclusive(ageMs, maxAgeMs) == ageMs < 0 \/ ageMs >= maxAgeMs

\* OutsideWindow without the test for a first publish in the future
OutsideWindowNoFutureCheck(ageMs, maxAgeMs) == ageMs > maxAgeMs

\* if (ageMs < 0 || ageMs > maxAgeMs) return null
OutsideWindow(ageMs, maxAgeMs) == ageMs < 0 \/ ageMs > maxAgeMs

\* NoPublishedVersion that lets only a package of one version through
NotExactlyOneVersion(numberOfVersions) == numberOfVersions # 1

\* if (numberOfVersions === 0) return null
NoPublishedVersion(numberOfVersions) == numberOfVersions = 0

\* LatestVersion that never reads the dist-tag
LatestVersionLastKey(data) == data.versions[Len(data.versions)].version

\* data["dist-tags"]?.latest || versionNames[versionNames.length - 1]
LatestVersion(data) ==
    IF data.latest # None THEN data.latest[1]
    ELSE data.versions[Len(data.versions)].version

\* the body of getIfFirstVersionRecent after a 2xx answer was parsed
ResolveDoc(pkgName, data, daysBack, now) ==
    LET numberOfVersions == Len(data.versions)
        createdStr == data.created
        ageMs == now - createdStr.ms
        maxAgeMs == daysBack * MS_PER_DAY
        latestVersion == LatestVersion(data)
        versionData == VersionData(data, latestVersion)
        rawDescription ==
            IF data.description # <<>> THEN data.description
            ELSE IF versionData # None /\ versionData[1].description # <<>>
                 THEN versionData[1].description
                 ELSE <<>>
        hasBin == versionData # None /\ versionData[1].bin > 0
    IN IF NoPublishedVersion(numberOfVersions) THEN Null
       ELSE IF createdStr.kind = "missing" THEN Null
       ELSE IF createdStr.kind = "invalid" THEN Null
       ELSE IF OutsideWindow(ageMs, maxAgeMs) THEN Null
       ELSE PackageInfo(pkgName, latestVersion, NormalizeDescription(rawDescription),
                        createdStr.ms, numberOfVersions, hasBin)

\* outcome of awaiting getIfFirstVersionRecent: it throws, or returns null or an info
ResolveResponse(pkgName, data, daysBack, now) ==
    IF data.fetch = "throw" THEN [threw |-> TRUE, info |-> Null]
    ELSE IF data.fetch # "ok" THEN [threw |-> FALSE, info |-> Null]
    ELSE [threw |-> FALSE, info |-> ResolveDoc(pkgName, data, daysBack, now)]

\* getIfFirstVersionRecent against the registry of the run
getIfFirstVersionRecent(pkgName, daysBack, now) ==
    ResolveResponse(pkgName, RegistryDoc(pkgName), daysBack, now)

----------------------------------------------------------------------------
(* Line Counter, as the orchestrator sees it: the number it resolves to    *)

countJsLinesInPackage(packageName, version) ==
    LET metadata == RegistryDoc(packageName)
        versionData == VersionData(metadata, version)
    IN IF metadata.fetch # "ok" THEN 0
       ELSE IF versionData = None \/ ~versionData[1].tarball.url THEN 0
       ELSE IF versionData[1].tarball.download # "ok" THEN 0
       ELSE IF versionData[1].tarball.extract # "ok" THEN 0
       ELSE versionData[1].tarball.lines

----------------------------------------------------------------------------
(* The registry's change feed, as the run sees it.  The registry holds a   *)
(* change log; a request with limit and since is answered with the next    *)
(* limit rows after position since, and last_seq is the position reached.  *)
(* A stuck feed answers with the rows but does not move last_seq; a        *)
(* request can also fail (non-2xx answer or transport error).              *)

ChangeLogs ==
    {<<PkgAB, PkgC, DesignDoc, NoId, PkgAB, PkgABC, PkgOld>>,
     <<PkgOld, PkgABC, PkgOld, PkgGone, PkgThrow, PkgAB, PkgC>>}

FeedModes == {"advance", "stuck", "http_error", "throw"}

FeedResponse(status, rows, last_seq) ==
    [status |-> status, rows |-> rows, last_seq |-> last_seq]

\* SinceParam of a request that never carries a cursor
SinceParamNever(since) == None

\* if (since) url.searchParams.set("since", since): a falsy cursor is not sent
SinceParam(since) == IF since # None /\ since[1] # 0 THEN since ELSE None

\* what GET replicate.npmjs.com/registry/_changes?limit=..&since=.. answers
FeedAnswer(log, limit, since, mode) ==
    LET start == IF SinceParam(since) = None THEN 0 ELSE since[1]
        rows == SubSeq(log, start + 1, Min(start + limit, Len(log)))
    IN IF mode \in {"http_error", "throw"} THEN FeedResponse(mode, <<>>, None)
       ELSE IF mode = "stuck" THEN FeedResponse("ok", rows, Some(start))
       ELSE FeedResponse("ok", rows, Some(start + Len(rows)))

(* Inputs of a run *)

SearchStrings == {<<>>, <<"a", "b">>}
MinJsLinesChoices == {None, Some(0), Some(2)}

Options ==
    [changesLimit : 1..MaxRows,
     maxResults : 0..MaxResultsBound,
     daysBack : {7},
     concurrency : 0..MaxConcurrency,
     searchTerms : SearchStrings,
     partialMatch : BOOLEAN,
     minJsLines : MinJsLinesChoices,
     maxPages : 0..MaxPagesBound,
     requireBin : BOOLEAN]

Workers == 1..MaxConcurrency

----------------------------------------------------------------------------
(* Discovery Orchestrator: getRecentNpmPackages                            *)

terms == IF opts.searchTerms # <<>> THEN parseSearchTerms(opts.searchTerms) ELSE <<>>
hasSearchFilter == Len(terms) > 0
hasJsLinesFilter == opts.minJsLines # None /\ opts.minJsLines[1] > 0

\* no single call is under way
NoUnit == [kind |-> "none"]

\* the locals of getRecentNpmPackages before its first statement has run
Idle ==
    /\ pc = "idle"
    /\ results = <<>>
    /\ lastSeq = None
    /\ pageNumber = 0
    /\ names = <<>>
    /\ newLastSeq = None
    /\ index = 0
    /\ wpc = [w \in Workers |-> "none"]
    /\ wcur = [w \in Workers |-> 0]
    /\ winfo = [w \in Workers |-> Null]
    /\ fetchLog = <<>>
    /\ takenLog = <<>>

Init ==
    /\ opts \in Options
    /\ changeLog \in ChangeLogs
    /\ Idle
    /\ unit = NoUnit

\* PageLoopCondition without the page budget
PageLoopConditionNoPageLimit(res, page) == Len(res) < opts.maxResults

\* while (results.length < maxResults && pageNumber < maxPages)
PageLoopCondition(res, page) == Len(res) < opts.maxResults /\ page < opts.maxPages

\* the head of the page loop, with the cursor seq: either the next request is
\* issued or the loop ends and the function returns results
PageLoop(seq) ==
    IF PageLoopCondition(results', pageNumber)
    THEN /\ pageNumber' = pageNumber + 1
         /\ fetchLog' = Append(fetchLog,
                [page |-> pageNumber + 1, since |-> SinceParam(seq),
                 size |-> Len(results'), answer |-> "pending",
                 names |-> <<>>, last_seq |-> None])
         /\ pc' = "fetching"
    ELSE /\ pc' = "returned"
         /\ UNCHANGED <<pageNumber, fetchLog>>

\* getRecentNpmPackages is called: lines 358-409 run up to the first await
Discover ==
    /\ pc = "idle"
    /\ results' = results
    /\ PageLoop(lastSeq)
    /\ UNCHANGED <<unit, opts, changeLog, lastSeq, names, newLastSeq, index, wpc, wcur, winfo, takenLog>>

\* WorkerLoopCondition without the test of the ResultSet
WorkerLoopConditionNoResultLimit(pool, pageNames, res) == pool.index < Len(pageNames)

\* while (index < names.length && results.length < maxResults)
WorkerLoopCondition(pool, pageNames, res) ==
    pool.index < Len(pageNames) /\ Len(res) < opts.maxResults

\* WorkerLoop reading the index without advancing it
WorkerLoopNoIncrement(w, pool, pageNames, res, page) ==
    IF WorkerLoopCondition(pool, pageNames, res)
    THEN [index |-> pool.index,
          wpc |-> [pool.wpc EXCEPT ![w] = "meta"],
          wcur |-> [pool.wcur EXCEPT ![w] = pool.index],
          taken |-> Append(pool.taken,
                       [page |-> page, index |-> pool.index, worker |-> w,
                        name |-> pageNames[pool.index + 1], size |-> Len(res)])]
    ELSE [pool EXCEPT !.wpc[w] = "done"]

\* WorkerLoop whose promise never settles when the loop is left
WorkerLoopNeverSettles(w, pool, pageNames, res, page) ==
    IF WorkerLoopCondition(pool, pageNames, res)
    THEN [index |-> pool.index + 1,
          wpc |-> [pool.wpc EXCEPT ![w] = "meta"],
          wcur |-> [pool.wcur EXCEPT ![w] = pool.index],
          taken |-> Append(pool.taken,
                       [page |-> page, index |-> pool.index, worker |-> w,
                        name |-> pageNames[pool.index + 1], size |-> Len(res)])]
    ELSE [pool EXCEPT !.wpc[w] = "none"]

\* WorkerLoop that steps over an index each time it takes one
WorkerLoopSkipsIndex(w, pool, pageNames, res, page) ==
    IF WorkerLoopCondition(pool, pageNames, res)
    THEN [index |-> pool.index + 2,
          wpc |-> [pool.wpc EXCEPT ![w] = "meta"],
          wcur |-> [pool.wcur EXCEPT ![w] = pool.index],
          taken |-> Append(pool.taken,
                       [page |-> page, index |-> pool.index, worker |-> w,
                        name |-> pageNames[pool.index + 1], size |-> Len(res)])]
    ELSE [pool EXCEPT !.wpc[w] = "done"]

\* the head of worker w's loop: take the next index and start resolving it,
\* or leave the loop
WorkerLoop(w, pool, pageNames, res, page) ==
    IF WorkerLoopCondition(pool, pageNames, res)
    THEN [index |-> pool.index + 1,
          wpc |-> [pool.wpc EXCEPT ![w] = "meta"],
          wcur |-> [pool.wcur EXCEPT ![w] = pool.index],
          taken |-> Append(pool.taken,
                       [page |-> page, index |-> pool.index, worker |-> w,
                        name |-> pageNames[pool.index + 1], size |-> Len(res)])]
    ELSE [pool EXCEPT !.wpc[w] = "done"]

\* Array.from({ length: concurrency }, () => worker()): every worker runs to
\* its first await, in order
RECURSIVE StartWorkers(_, _, _, _, _)
StartWorkers(w, pool, pageNames, res, page) ==
    IF w > opts.concurrency THEN pool
    ELSE StartWorkers(w + 1, WorkerLoop(w, pool, pageNames, res, page),
                      pageNames, res, page)

Pool == [index |-> index, wpc |-> wpc, wcur |-> wcur, taken |-> takenLog]

SetPool(pool) ==
    /\ index' = pool.index
    /\ wpc' = pool.wpc
    /\ wcur' = pool.wcur
    /\ takenLog' = pool.taken

\* FeedFailed without the test of res.ok
FeedFailedIgnoresStatus(response) == response.status = "throw"

\* PageIsEmpty that never stops the loop
PageIsEmptyNever(pageNames) == FALSE

\* if (!res.ok) throw ..., and a transport error thrown by fetch itself
FeedFailed(response) == response.status # "ok"

\* if (names.length === 0) break
PageIsEmpty(pageNames) == Len(pageNames) = 0

\* the change-feed request of the current page is answered: lines 248-271
\* of getRecentPackageNames, then lines 411-497 up to await Promise.all
FeedResponds ==
    /\ pc = "fetching"
    /\ \E mode \in FeedModes :
         LET response == FeedAnswer(changeLog, opts.changesLimit, lastSeq, mode)
         IN
         IF FeedFailed(response)
         THEN \* getRecentPackageNames throws; nothing catches it
              /\ pc' = "aborted"
              /\ fetchLog' = [fetchLog EXCEPT ![Len(fetchLog)].answer = response.status]
              /\ UNCHANGED <<names, newLastSeq, index, wpc, wcur, winfo, takenLog>>
         ELSE LET page == getRecentPackageNames(response)
              IN /\ fetchLog' = [fetchLog EXCEPT
                        ![Len(fetchLog)].answer = response.status,
                        ![Len(fetchLog)].names = page.names,
                        ![Len(fetchLog)].last_seq = page.lastSeq]
                 /\ IF PageIsEmpty(page.names)
                    THEN /\ pc' = "returned"
                         /\ UNCHANGED <<names, newLastSeq, index, wpc, wcur, winfo,
                                        takenLog>>
                    ELSE /\ names' = page.names
                         /\ newLastSeq' = page.lastSeq
                         /\ SetPool(StartWorkers(1,
                                [index |-> 0,
                                 wpc |-> [w \in Workers |-> "none"],
                                 wcur |-> [w \in Workers |-> 0],
                                 taken |-> takenLog],
                                page.names, results, pageNumber))
                         /\ winfo' = [w \in Workers |-> Null]
                         /\ pc' = "workers"
    /\ UNCHANGED <<unit, opts, changeLog, results, lastSeq, pageNumber>>

\* PassesCheapFilters with the executable filter left out
PassesCheapFiltersNoBinCheck(info) ==
    /\ info # Null
    /\ ~(hasSearchFilter
         /\ ~matchesSearch(info.name, terms, opts.partialMatch, TRUE)
         /\ ~matchesSearch(info.description, terms, opts.partialMatch, TRUE))

\* PassesCheapFilters that searches name and description as one text
PassesCheapFiltersJoinedText(info) ==
    /\ info # Null
    /\ ~(opts.requireBin /\ ~info.hasBin)
    /\ ~(hasSearchFilter
         /\ ~matchesSearch(info.name \o <<" ">> \o info.description, terms,
                           opts.partialMatch, TRUE))

\* the filters between the resolver and the line count (lines 433-468):
\* TRUE when the candidate goes on
PassesCheapFilters(info) ==
    /\ info # Null
    /\ ~(opts.requireBin /\ ~info.hasBin)
    /\ ~(hasSearchFilter
         /\ ~matchesSearch(info.name, terms, opts.partialMatch, TRUE)
         /\ ~matchesSearch(info.description, terms, opts.partialMatch, TRUE))

\* NeedsLineCount of a worker that counts lines for every candidate
NeedsLineCountAlways == TRUE

\* if (hasJsLinesFilter) ... else if (minJsLines === 0) ...: lines 471, 480
NeedsLineCount == hasJsLinesFilter \/ opts.minJsLines = Some(0)

\* AfterLineCount that also turns away a candidate counted at 0 lines
AfterLineCountRejectsZero(info) ==
    LET jsLines == countJsLinesInPackage(info.name, info.version)
    IN IF jsLines = 0 \/ (hasJsLinesFilter /\ jsLines < opts.minJsLines[1])
       THEN Null
       ELSE [info EXCEPT !.jsLines = Some(jsLines)]

\* AfterLineCount that lets a candidate through when its count came back 0
AfterLineCountPassesZero(info) ==
    LET jsLines == countJsLinesInPackage(info.name, info.version)
    IN IF hasJsLinesFilter /\ jsLines # 0 /\ jsLines < opts.minJsLines[1]
       THEN Null
       ELSE [info EXCEPT !.jsLines = Some(jsLines)]

\* lines 473-479 and 483: the info with its count attached, or Null when the
\* size filter rejects it
AfterLineCount(info) ==
    LET jsLines == countJsLinesInPackage(info.name, info.version)
    IN IF hasJsLinesFilter /\ jsLines < opts.minJsLines[1]
       THEN Null
       ELSE [info EXCEPT !.jsLines = Some(jsLines)]

\* what evaluating one candidate ends in: the info that is pushed, or Null
\* when the candidate is absent, rejected or its evaluation threw
Evaluate(name) ==
    LET r == getIfFirstVersionRecent(name, opts.daysBack, Now)
    IN IF r.threw \/ ~PassesCheapFilters(r.info) THEN Null
       ELSE IF NeedsLineCount THEN AfterLineCount(r.info)
       ELSE r.info

\* Push of a worker that drops its candidate once the ResultSet is full
PushUnlessFull(res, info) ==
    IF Len(res) >= opts.maxResults THEN res ELSE Append(res, info)

\* Push that puts the new entry in front
PushInFront(res, info) == <<info>> \o res

\* Push of a run that keeps one entry per package name
PushUnlessPresent(res, info) ==
    IF \E k \in 1..Len(res) : res[k].name = info.name THEN res ELSE Append(res, info)

\* Push that adds the entry twice
PushTwice(res, info) == Append(Append(res, info), info)

\* results.push(info): line 486
Push(res, info) == Append(res, info)

\* SkipCandidate of a worker whose loop ends with the candidate it gives up
SkipCandidateLeavesLoop(w, pool) == [pool EXCEPT !.wpc[w] = "done"]

\* `continue` (lines 434-468) and the catch block inside the loop body
\* (lines 490-492): the candidate is given up and the loop head runs again
SkipCandidate(w, pool) == WorkerLoop(w, pool, names, results, pageNumber)

\* worker w's metadata request is answered: lines 432-493, then the loop head
MetaResponds(w) ==
    /\ pc = "workers"
    /\ wpc[w] = "meta"
    /\ LET r == getIfFirstVersionRecent(names[wcur[w] + 1], opts.daysBack, Now)
       IN IF r.threw \/ ~PassesCheapFilters(r.info)
          THEN /\ results' = results
               /\ winfo' = winfo
               /\ SetPool(SkipCandidate(w, Pool))
          ELSE IF NeedsLineCount
          THEN /\ results' = results
               /\ winfo' = [winfo EXCEPT ![w] = r.info]
               /\ wpc' = [wpc EXCEPT ![w] = "lines"]
               /\ UNCHANGED <<index, wcur, takenLog>>
          ELSE /\ results' = Push(results, r.info)
               /\ winfo' = winfo
               /\ SetPool(WorkerLoop(w, Pool, names, results', pageNumber))
    /\ UNCHANGED <<unit, opts, changeLog, pc, lastSeq, pageNumber, names, newLastSeq, fetchLog>>

\* worker w's line count resolves: lines 473-493, then the loop head
LinesResponds(w) ==
    /\ pc = "workers"
    /\ wpc[w] = "lines"
    /\ LET info == AfterLineCount(winfo[w])
       IN /\ IF info = Null
             THEN results' = results
             ELSE results' = Push(results, info)
          /\ winfo' = [winfo EXCEPT ![w] = Null]
          /\ SetPool(WorkerLoop(w, Pool, names, results', pageNumber))
    /\ UNCHANGED <<unit, opts, changeLog, pc, lastSeq, pageNumber, names, newLastSeq, fetchLog>>

\* AllWorkersDone for Promise.race in place of Promise.all
SomeWorkerDone == \E w \in 1..opts.concurrency : wpc[w] = "done"

\* every promise handed to Promise.all has resolved
AllWorkersDone == \A w \in 1..opts.concurrency : wpc[w] = "done"

\* await Promise.all(workers) resolves: lines 499-538, then the loop head
PageComplete ==
    /\ pc = "workers"
    /\ AllWorkersDone
    /\ results' = results
    /\ IF Len(results) >= opts.maxResults \/ Len(names) = 0
       THEN /\ pc' = "returned"
            /\ UNCHANGED <<lastSeq, pageNumber, fetchLog>>
       ELSE /\ lastSeq' = newLastSeq
            /\ PageLoop(newLastSeq)
    /\ UNCHANGED <<unit, opts, changeLog, names, newLastSeq, index, wpc, wcur, winfo, takenLog>>

Next ==
    \/ Discover
    \/ FeedResponds
    \/ \E w \in Workers : MetaResponds(w)
    \/ \E w \in Workers : LinesResponds(w)
    \/ PageComplete

Spec == Init /\ [][Next]_vars

----------------------------------------------------------------------------
(* Single calls.  A function whose contract is stated for all its inputs   *)
(* is run on its own: unit holds the arguments of one call and, once the   *)
(* call has returned, its outcome.  No run of the orchestrator is under    *)
(* way meanwhile.                                                          *)

orchVars == <<opts, pc, results, lastSeq, pageNumber, names, newLastSeq, index,
              wpc, wcur, winfo, changeLog, fetchLog, takenLog>>

\* the defaults of the options parameter, with the smallest budget
DefaultOptions ==
    [changesLimit |-> 1, maxResults |-> 0, daysBack |-> 7, concurrency |-> 0,
     searchTerms |-> <<>>, partialMatch |-> TRUE, minJsLines |-> None,
     maxPages |-> 0, requireBin |-> FALSE]

(* One call of getIfFirstVersionRecent(pkgName, daysBack, now) *)

MaxDaysBack == 3        \* largest daysBack of a single call

\* the part of a day by which an age exceeds a whole number of days, in ms
DayFractions == {0, 1, MS_PER_DAY - 1}

\* now - created, in ms; negative for a first publish in the future
ResolverAges ==
    {d * MS_PER_DAY + f : d \in 0..(MaxDaysBack + 1), f \in DayFractions}
       \cup {0 - 1, 0 - MS_PER_DAY}

ResolverCreated ==
    {CreatedAt(Now - a) : a \in ResolverAges} \cup {CreatedMissing, CreatedInvalid}

ResolverVersions ==
    {<<>>,
     <<Version("1.0.0", 1, <<"a">>, Tarball(TRUE, "ok", "ok", 1))>>,
     <<Version("0.1.0", 1, <<>>, Tarball(TRUE, "ok", "ok", 1)),
       Version("0.2.0", 0, <<>>, Tarball(TRUE, "ok", "ok", 1))>>}

ResolverDocs ==
    {Doc(f, v, c, l, d) :
        f \in {"ok", "http_error", "throw"}, v \in ResolverVersions,
        c \in ResolverCreated, l \in {None, Some("1.0.0"), Some("0.1.0")},
        d \in {<<>>, <<"b", "\n", "c">>}}

InitResolve ==
    /\ opts = DefaultOptions
    /\ changeLog = <<>>
    /\ Idle
    /\ unit \in [kind : {"resolve"}, pkgName : {PkgAB}, daysBack : 0..MaxDaysBack,
                  data : ResolverDocs, out : {None}]

\* the promise of getIfFirstVersionRecent settles
ResolveReturns ==
    /\ unit.kind = "resolve"
    /\ unit.out = None
    /\ unit' = [unit EXCEPT
                   !.out = Some(ResolveResponse(unit.pkgName, unit.data,
                                                unit.daysBack, Now))]
    /\ UNCHANGED orchVars

ResolveSpec == InitResolve /\ [][ResolveReturns]_vars

(* One call of getRecentPackageNames(limit, since), given the answer *)

\* ids of the rows of an answer: two packages, a design document, a row with
\* no id, and a package whose name holds _design/ after its first character
FeedIds == {PkgAB, PkgC, DesignDoc, NoId, <<"a", "_design/">>}

FeedRows == UNION {[1..n -> FeedIds] : n \in 0..MaxRows}

InitPage ==
    /\ opts = DefaultOptions
    /\ changeLog = <<>>
    /\ Idle
    /\ unit \in [kind : {"page"},
                  response : {FeedResponse(st, rows, Some(Len(rows))) :
                                 st \in {"ok", "http_error"}, rows \in FeedRows},
                  out : {None}]

\* the promise of getRecentPackageNames settles: rejected on a failed
\* request, otherwise resolved with names and lastSeq
PageReturns ==
    /\ unit.kind = "page"
    /\ unit.out = None
    /\ unit' = [unit EXCEPT
                   !.out = IF FeedFailed(unit.response)
                           THEN Some([threw |-> TRUE, names |-> <<>>, lastSeq |-> None])
                           ELSE LET page == getRecentPackageNames(unit.response)
                                IN Some([threw |-> FALSE, names |-> page.names,
                                         lastSeq |-> page.lastSeq])]
    /\ UNCHANGED orchVars

PageSpec == InitPage /\ [][PageReturns]_vars

(* One call of matchesSearch(description, { terms, partialMatch }) *)

MaxTextLen == 3         \* longest text searched in a single call

\* a lower-case letter, an upper-case letter, a character that is neither a
\* word character nor white space, and a space
TextAlphabet == {"a", "B", "-", " "}

MatchTexts == UNION {[1..n -> TextAlphabet] : n \in 0..MaxTextLen}

\* terms as parseSearchTerms yields them: not empty, free of white space
MatchTerms ==
    {<<"A">>, <<"b">>, <<"A", "b">>, <<"-", "A">>, <<"A", "-">>, <<"b", "-", "A">>}

MatchTermLists ==
    {<<>>} \cup {<<t>> : t \in MatchTerms} \cup {<<t, u>> : t, u \in MatchTerms}

InitMatch ==
    /\ opts = DefaultOptions
    /\ changeLog = <<>>
    /\ Idle
    /\ unit \in [kind : {"match"}, text : MatchTexts, terms : MatchTermLists,
                  partialMatch : BOOLEAN, out : {None}]

\* matchesSearch returns (caseInsensitive keeps its default, true)
MatchReturns ==
    /\ unit.kind = "match"
    /\ unit.out = None
    /\ unit' = [unit EXCEPT
                   !.out = Some(matchesSearch(unit.text, unit.terms,
                                              unit.partialMatch, TRUE))]
    /\ UNCHANGED orchVars

MatchSpec == InitMatch /\ [][MatchReturns]_vars

(* The text filter of the worker on one resolved candidate: lines 445-468 *)

FilterNames == {<<"a">>, <<"B">>, <<"a", "B">>, <<"a", "-", "B">>}

FilterDescriptions ==
    {<<>>, <<" ">>, <<"a">>, <<"B">>, <<"B", " ", "a">>, <<"a", "B">>}

FilterSearchStrings ==
    {<<>>, <<" ">>, <<"A">>, <<"A", " ", "b">>, <<"\t", "b", " ", " ", "A", "\n">>}

FilterOptions ==
    {[DefaultOptions EXCEPT !.searchTerms = st, !.partialMatch = pm, !.requireBin = rb] :
        st \in FilterSearchStrings, pm \in BOOLEAN, rb \in BOOLEAN}

InitFilter ==
    /\ opts \in FilterOptions
    /\ changeLog = <<>>
    /\ Idle
    /\ unit \in [kind : {"filter"},
                  info : {PackageInfo(n, "1.0.0", d, Now, 1, b) :
                             n \in FilterNames, d \in FilterDescriptions,
                             b \in BOOLEAN},
                  out : {None}]

\* the worker has run lines 445-468 on the info: TRUE when it goes on
FilterReturns ==
    /\ unit.kind = "filter"
    /\ unit.out = None
    /\ unit' = [unit EXCEPT !.out = Some(PassesCheapFilters(unit.info))]
    /\ UNCHANGED orchVars

FilterSpec == InitFilter /\ [][FilterReturns]_vars

(* One call of parseDateRange(input): src/src/date-parser.ts *)

DAYS_PER_WEEK == 7
DAYS_PER_MONTH == 30
DAYS_PER_YEAR == 365

MaxInputLen == 3        \* longest input of a single call

Digits == {"0", "1", "2"}

DigitValue(c) == CASE c = "0" -> 0 [] c = "1" -> 1 [] c = "2" -> 2

\* digits, unit letters in both cases, the decimal point, a space and a
\* character of no meaning
InputAlphabet == Digits \cup {"d", "w", "m", "y", "D", ".", " ", "x"}

DateInputs == UNION {[1..n -> InputAlphabet] : n \in 0..MaxInputLen}

\* the longest prefix of s made of digits
RECURSIVE TakeDigits(_)
TakeDigits(s) ==
    IF s # <<>> /\ Head(s) \in Digits THEN <<Head(s)>> \o TakeDigits(Tail(s)) ELSE <<>>

\* s without its first n characters
Drop(s, n) == SubSeq(s, n + 1, Len(s))

\* the value of a string of decimal digits; parseInt(s, 10) on such a string
RECURSIVE DecimalValue(_)
DecimalValue(s) ==
    IF s = <<>> THEN 0
    ELSE 10 * DecimalValue(SubSeq(s, 1, Len(s) - 1)) + DigitValue(s[Len(s)])

RECURSIVE PowerOfTen(_)
PowerOfTen(n) == IF n = 0 THEN 1 ELSE 10 * PowerOfTen(n - 1)

NaN == [nan |-> TRUE, mantissa |-> 0, decimals |-> 0]

\* Number(s) for a trimmed, non-empty s over the input alphabet: digits, a
\* point, digits, with a digit on at least one side; anything else is NaN.
\* The value is mantissa / 10^decimals.
StringToNumber(s) ==
    LET whole == TakeDigits(s)
        r1 == Drop(s, Len(whole))
        hasPoint == r1 # <<>> /\ r1[1] = "."
        fraction == IF hasPoint THEN TakeDigits(Tail(r1)) ELSE <<>>
        r2 == IF hasPoint THEN Drop(Tail(r1), Len(fraction)) ELSE r1
    IN IF Len(whole) + Len(fraction) = 0 \/ r2 # <<>> THEN NaN
       ELSE [nan |-> FALSE, mantissa |-> DecimalValue(whole \o fraction),
             decimals |-> Len(fraction)]

\* Math.floor of a number that is not negative
Floor(x) == x.mantissa \div PowerOfTen(x.decimals)

\* trimmed.match(/^(\d+)\s*([dwmy])$/i): None, or Some of the two groups
DateRangeRegexMatch(s) ==
    LET amount == TakeDigits(s)
        unitChar == IF s = <<>> THEN "" ELSE s[Len(s)]
        between == SubSeq(s, Len(amount) + 1, Len(s) - 1)
    IN IF /\ Len(amount) > 0
          /\ Len(s) > Len(amount)
          /\ \A i \in 1..Len(between) : between[i] \in WhiteSpace
          /\ LowerChar(unitChar) \in {"d", "w", "m", "y"}
       THEN Some([amount |-> amount, unit |-> unitChar])
       ELSE None

\* DaysPerUnit with a month of 31 days
DaysPerUnitLongMonth(u) ==
    CASE u = "d" -> 1
      [] u = "w" -> DAYS_PER_WEEK
      [] u = "m" -> DAYS_PER_MONTH + 1
      [] u = "y" -> DAYS_PER_YEAR

\* the switch of lines 54-69, as a factor
DaysPerUnit(u) ==
    CASE u = "d" -> 1
      [] u = "w" -> DAYS_PER_WEEK
      [] u = "m" -> DAYS_PER_MONTH
      [] u = "y" -> DAYS_PER_YEAR

Threw == [threw |-> TRUE, days |-> 0]
ParsedDateRange(days) == [threw |-> FALSE, days |-> days]

parseDateRange(input) ==
    LET trimmed == Trim(input)
        plainNumber == StringToNumber(trimmed)
        match == DateRangeRegexMatch(trimmed)
    IN IF trimmed = <<>> THEN Threw
       ELSE IF ~plainNumber.nan /\ plainNumber.mantissa > 0
            THEN ParsedDateRange(Floor(plainNumber))
       ELSE IF match = None THEN Threw
       ELSE LET amount == DecimalValue(match[1].amount)
                u == LowerChar(match[1].unit)
            IN IF amount <= 0 THEN Threw
               ELSE ParsedDateRange(amount * DaysPerUnit(u))

InitParse ==
    /\ opts = DefaultOptions
    /\ changeLog = <<>>
    /\ Idle
    /\ unit \in [kind : {"parse"}, input : DateInputs, out : {None}]

\* parseDateRange returns or throws
ParseReturns ==
    /\ unit.kind = "parse"
    /\ unit.out = None
    /\ unit' = [unit EXCEPT !.out = Some(parseDateRange(unit.input))]
    /\ UNCHANGED orchVars

ParseSpec == InitParse /\ [][ParseReturns]_vars

(* One call of countJsLinesInDirectory(dirPath) on an extracted tree.  A   *)
(* directory entry has a name, a kind ("file", "dir", or "other" for what  *)
(* is neither, such as a symbolic link), a flag telling whether readFile   *)
(* or readdir succeeds on it, a content (files) and entries (directories). *)
(* The token "node_modules" stands for the twelve characters of that name. *)

File(name, readable, content) ==
    [name |-> name, kind |-> "file", readable |-> readable,
     content |-> content, entries |-> <<>>]

Dir(name, readable, entries) ==
    [name |-> name, kind |-> "dir", readable |-> readable,
     content |-> <<>>, entries |-> entries]

Other(name) ==
    [name |-> name, kind |-> "other", readable |-> TRUE,
     content |-> <<>>, entries |-> <<>>]

\* s ends with t
EndsWith(s, t) == Len(t) <= Len(s) /\ SubSeq(s, Len(s) - Len(t) + 1, Len(s)) = t

JsExtensions ==
    {<<"j", "s">>, <<"j", "s", "x">>, <<"t", "s">>, <<"t", "s", "x">>,
     <<"m", "j", "s">>, <<"c", "j", "s">>}

\* JsFileRegexTest that takes every file
JsFileRegexTestAnyName(name) == TRUE

\* /\.(js|jsx|ts|tsx|mjs|cjs)$/i.test(entry.name)
JsFileRegexTest(name) ==
    \E ext \in JsExtensions : EndsWith(ToLowerCase(name), <<".">> \o ext)

\* content.split("\n"): the pieces between the separators
RECURSIVE SplitOnNewline(_, _)
SplitOnNewline(content, cur) ==
    IF content = <<>> THEN <<cur>>
    ELSE IF Head(content) = "\n"
         THEN <<cur>> \o SplitOnNewline(Tail(content), <<>>)
         ELSE SplitOnNewline(Tail(content), Append(cur, Head(content)))

\* entry.name === "node_modules" || entry.name.startsWith(".")
SkippedDirectory(name) ==
    name = <<"node_modules">> \/ (Len(name) > 0 /\ name[1] = ".")

WalkResult(threw, totalLines, fileCount) ==
    [threw |-> threw, totalLines |-> totalLines, fileCount |-> fileCount]

\* the for loop of processDirectory over the entries readdir returned, with
\* the totals so far; threw when a readdir below rejected
RECURSIVE processEntries(_, _)
processEntries(entries, acc) ==
    IF entries = <<>> THEN acc
    ELSE LET entry == Head(entries)
             after ==
                IF entry.kind = "dir"
                THEN IF SkippedDirectory(entry.name) THEN acc
                     ELSE IF ~entry.readable THEN WalkResult(TRUE, 0, 0)
                     ELSE processEntries(entry.entries, acc)
                ELSE IF entry.kind = "file" /\ JsFileRegexTest(entry.name)
                        /\ entry.readable
                THEN WalkResult(FALSE,
                                acc.totalLines + Len(SplitOnNewline(entry.content, <<>>)),
                                acc.fileCount + 1)
                ELSE acc
         IN IF after.threw THEN after ELSE processEntries(Tail(entries), after)

\* countJsLinesInDirectory(dirPath), the directory listing root
countJsLinesInDirectory(root) ==
    IF ~root.readable THEN WalkResult(TRUE, 0, 0)
    ELSE processEntries(root.entries, WalkResult(FALSE, 0, 0))

\* what countJsLinesInPackage returns after the walk: lines 80-85
ReturnAfterWalk(walk) == IF walk.threw THEN 0 ELSE walk.totalLines

WalkFileNames ==
    {<<"a", ".", "j", "s">>, <<"a", ".", "j", "s", "x">>, <<"a", ".", "t", "s">>,
     <<"a", ".", "t", "s", "x">>, <<"a", ".", "m", "j", "s">>,
     <<"a", ".", "c", "j", "s">>, <<"a", ".", "T", "S">>, <<"a", ".", "m", "d">>,
     <<"a", ".", "j", "s", "o", "n">>, <<"j", "s">>, <<".", "j", "s">>}

WalkContents == {<<>>, <<"x", "\n", "x">>, <<"x", "\n">>}

WalkFiles ==
    {File(n, TRUE, c) : n \in WalkFileNames, c \in WalkContents}
       \cup {File(n, FALSE, <<"x", "\n", "x">>) : n \in WalkFileNames}
       \cup {Other(<<"a", ".", "j", "s">>)}

TwoLineJs == File(<<"a", ".", "j", "s">>, TRUE, <<"x", "\n", "x">>)

WalkInnerDirs ==
    {Dir(n, r, <<TwoLineJs>>) :
        n \in {<<"l", "i", "b">>, <<"node_modules">>, <<".", "g">>}, r \in BOOLEAN}

WalkDirs ==
    {Dir(n, r, es) :
        n \in {<<"s", "r", "c">>, <<"node_modules">>, <<".", "g">>,
               <<"node_modules", "2">>},
        r \in BOOLEAN,
        es \in {<<>>, <<TwoLineJs>>} \cup {<<d>> : d \in WalkInnerDirs}}

WalkEntries == WalkFiles \cup WalkDirs

WalkRoots ==
    {Dir(<<"extracted">>, TRUE, es) :
        es \in {<<>>} \cup {<<e>> : e \in WalkEntries}
                  \cup {<<e, f>> : e \in WalkEntries, f \in WalkEntries}}

InitWalk ==
    /\ opts = DefaultOptions
    /\ changeLog = <<>>
    /\ Idle
    /\ unit \in [kind : {"walk"}, root : WalkRoots, out : {None}]

\* the walk has settled and countJsLinesInPackage has its return value
WalkReturns ==
    /\ unit.kind = "walk"
    /\ unit.out = None
    /\ unit' = [unit EXCEPT
                   !.out = Some(ReturnAfterWalk(countJsLinesInDirectory(unit.root)))]
    /\ UNCHANGED orchVars

WalkSpec == InitWalk /\ [][WalkReturns]_vars

(* One call of countJsLinesInPackage(packageName, version), await by await. *)
(* unit.data is what the registry answers for packageName; the outcome of   *)
(* every file-system call is chosen when the call is made.                  *)

TarballOutcomes == {"ok", "http_error", "throw", "no_body"}

CounterDocs ==
    {NotFoundDoc, Doc("throw", <<>>, CreatedMissing, None, <<>>)}
       \cup {Doc("ok", <<Version("1.0.0", 1, <<>>, Tarball(u, d, e, n))>>,
                 CreatedAt(Now), Some("1.0.0"), <<>>) :
                u \in BOOLEAN, d \in TarballOutcomes, e \in {"ok", "throw"},
                n \in {0, 2}}

InitCount ==
    /\ opts = DefaultOptions
    /\ changeLog = <<>>
    /\ Idle
    /\ unit \in [kind : {"count"}, packageName : {PkgAB},
                  version : {"1.0.0", "9.9.9"}, data : CounterDocs,
                  pc : {"start"}, tempDir : {FALSE}, pending : {0},
                  rejects : {FALSE}, ret : {None}, failed : {{}},
                  rmCalled : {FALSE}]

\* Caught for a function whose try has no catch block
CaughtRethrows(u, stage) ==
    [u EXCEPT !.pc = "cleanup", !.pending = 0, !.rejects = TRUE,
              !.failed = @ \cup {stage}]

\* an error thrown inside the try block: catch (lines 83-85), then finally
Caught(u, stage) ==
    [u EXCEPT !.pc = "cleanup", !.pending = 0, !.failed = @ \cup {stage}]

\* Return0 that leaves the function at once, past the finally block
Return0SkipsFinally(u, stage) ==
    [u EXCEPT !.pc = "returned", !.ret = Some(0), !.failed = @ \cup {stage}]

\* return 0 inside the try block (lines 39, 47, 57), then finally
Return0(u, stage) ==
    [u EXCEPT !.pc = "cleanup", !.pending = 0, !.failed = @ \cup {stage}]

\* await mkdir(tempDir, { recursive: true })
CountMkdir ==
    /\ unit.kind = "count"
    /\ unit.pc = "start"
    /\ \E ok \in BOOLEAN :
          unit' = IF ok THEN [unit EXCEPT !.pc = "metadata", !.tempDir = TRUE]
                  ELSE Caught(unit, "mkdir")
    /\ UNCHANGED orchVars

\* await fetch(metadataUrl) and await metadataRes.json(): lines 35-50
CountMetadataResponds ==
    /\ unit.kind = "count"
    /\ unit.pc = "metadata"
    /\ LET metadata == unit.data
           versionData == VersionData(metadata, unit.version)
       IN unit' =
             IF metadata.fetch = "throw" THEN Caught(unit, "metadata")
             ELSE IF metadata.fetch # "ok" THEN Return0(unit, "metadata")
             ELSE IF versionData = None \/ ~versionData[1].tarball.url
                  THEN Return0(unit, "version")
                  ELSE [unit EXCEPT !.pc = "download"]
    /\ UNCHANGED orchVars

\* await fetch(tarballUrl): lines 53-62
CountTarballResponds ==
    /\ unit.kind = "count"
    /\ unit.pc = "download"
    /\ LET tarball == VersionData(unit.data, unit.version)[1].tarball
       IN unit' =
             IF tarball.download = "throw" THEN Caught(unit, "download")
             ELSE IF tarball.download = "http_error" THEN Return0(unit, "download")
             ELSE [unit EXCEPT !.pc = "mkdirExtract"]
    /\ UNCHANGED orchVars

\* await mkdir(extractDir, { recursive: true }), then lines 67-70
CountMkdirExtract ==
    /\ unit.kind = "count"
    /\ unit.pc = "mkdirExtract"
    /\ LET tarball == VersionData(unit.data, unit.version)[1].tarball
       IN \E ok \in BOOLEAN :
             unit' = IF ~ok THEN Caught(unit, "mkdirExtract")
                     ELSE IF tarball.download = "no_body" THEN Caught(unit, "body")
                     ELSE [unit EXCEPT !.pc = "pipeline"]
    /\ UNCHANGED orchVars

\* await pipeline(tarballRes.body, fileStream)
CountPipeline ==
    /\ unit.kind = "count"
    /\ unit.pc = "pipeline"
    /\ \E ok \in BOOLEAN :
          unit' = IF ok THEN [unit EXCEPT !.pc = "extract"]
                  ELSE Caught(unit, "pipeline")
    /\ UNCHANGED orchVars

\* await tarExtract({ file: tarballPath, cwd: extractDir })
CountExtract ==
    /\ unit.kind = "count"
    /\ unit.pc = "extract"
    /\ LET tarball == VersionData(unit.data, unit.version)[1].tarball
       IN unit' = IF tarball.extract = "ok" THEN [unit EXCEPT !.pc = "walk"]
                  ELSE Caught(unit, "extract")
    /\ UNCHANGED orchVars

\* await countJsLinesInDirectory(extractDir); return result.totalLines
CountWalk ==
    /\ unit.kind = "count"
    /\ unit.pc = "walk"
    /\ LET tarball == VersionData(unit.data, unit.version)[1].tarball
       IN \E ok \in BOOLEAN :
             unit' = IF ok THEN [unit EXCEPT !.pc = "cleanup", !.pending = tarball.lines]
                     ELSE Caught(unit, "walk")
    /\ UNCHANGED orchVars

\* finally: await rm(tempDir, { recursive: true, force: true }) inside a try
\* whose catch ignores the error; then the function settles
CountCleanup ==
    /\ unit.kind = "count"
    /\ unit.pc = "cleanup"
    /\ \E removed \in BOOLEAN :
          unit' = [unit EXCEPT
                      !.rmCalled = TRUE,
                      !.tempDir = IF removed THEN FALSE ELSE @,
                      !.failed = IF removed THEN @ ELSE @ \cup {"rm"},
                      !.pc = IF unit.rejects THEN "rejected" ELSE "returned",
                      !.ret = IF unit.rejects THEN None ELSE Some(unit.pending)]
    /\ UNCHANGED orchVars

CountNext ==
    \/ CountMkdir
    \/ CountMetadataResponds
    \/ CountTarballResponds
    \/ CountMkdirExtract
    \/ CountPipeline
    \/ CountExtract
    \/ CountWalk
    \/ CountCleanup

CountSpec == InitCount /\ [][CountNext]_vars

----------------------------------------------------------------------------
(* Chat-webhook poster: postPackagesToMattermost.  A text is kept as the   *)
(* sequence of its lines, each line with its kind, the position of its     *)
(* package and its length in characters; `terminated` tells whether the    *)
(* last line is followed by a line break as the others are.                *)

SinglePostLimit == 16000    \* if (text.length <= 16000)
ChunkLimit == 15000         \* if ((chunk + line + "\n").length > 15000)

TitleLength == 32           \* "## New NPM Packages (" + YYYY-MM-DD + ")"
HeaderLength == 45          \* "| Name | Description | Published | Versions |"
SeparatorLength == 45       \* "|:-----|:------------|:----------|:---------|"
EmptyTableLength == 22      \* "No new packages found."
UrlBaseLength == 29         \* "https://www.npmjs.com/package"
DateLength == 10            \* toISOString().split("T")[0]
MaxDescriptionCell == 80    \* substring(0, 80)

MaxPackages == 3            \* most packages handed to one call

TextLine(kind, pos, len) == [kind |-> kind, pos |-> pos, len |-> len]

Text(lines, terminated) == [lines |-> lines, terminated |-> terminated]

NoText == Text(<<>>, FALSE)

RECURSIVE SumOfLengths(_)
SumOfLengths(lines) ==
    IF lines = <<>> THEN 0 ELSE Head(lines).len + SumOfLengths(Tail(lines))

\* text.length: the characters of the lines and of the line breaks
TextLength(text) ==
    SumOfLengths(text.lines)
       + (IF text.terminated THEN Len(text.lines)
          ELSE IF text.lines = <<>> THEN 0 ELSE Len(text.lines) - 1)

\* n.toString().length for a count n >= 0
RECURSIVE DecimalDigits(_)
DecimalDigits(n) == IF n < 10 THEN 1 ELSE 1 + DecimalDigits(n \div 10)

\* (pkg.description || "-").substring(0, 80).length
DescriptionCellLength(pkg) ==
    IF pkg.descLen = 0 THEN 1 ELSE Min(pkg.descLen, MaxDescriptionCell)

\* `[${pkg.name}](${pkg.npmUrl})`.length, the name being made of characters
\* that encodeURIComponent leaves as they are
NameCellLength(pkg) == 1 + pkg.nameLen + 2 + (UrlBaseLength + 1 + pkg.nameLen) + 1

\* `| ${name} | ${desc} | ${published} | ${versions} |`.length
RowLength(pkg) ==
    2 + NameCellLength(pkg) + 3 + DescriptionCellLength(pkg) + 3 + DateLength + 3
      + DecimalDigits(pkg.numberOfVersions) + 2

\* the lines of toMarkdownTable(packages), joined there with "\n"
toMarkdownTable(packages) ==
    IF Len(packages) = 0 THEN <<TextLine("empty", 0, EmptyTableLength)>>
    ELSE <<TextLine("header", 0, HeaderLength),
           TextLine("separator", 0, SeparatorLength)>>
         \o [k \in 1..Len(packages) |-> TextLine("row", k, RowLength(packages[k]))]

TitleText == Text(<<TextLine("title", 0, TitleLength)>>, FALSE)

\* `${title}\n\n${table}`
WholeText(packages) ==
    Text(<<TextLine("title", 0, TitleLength), TextLine("blank", 0, 0)>>
            \o toMarkdownTable(packages), FALSE)

\* lines[0] + "\n" + lines[1] + "\n"
ChunkHeader(lines) == Text(SubSeq(lines, 1, 2), TRUE)

\* chunk + line + "\n"
AddLine(chunk, line) == Text(Append(chunk.lines, line), TRUE)

\* ChunkOverflows that lets a chunk grow to the limit of a single post
ChunkOverflowsAtPostLimit(chunk, line) ==
    TextLength(AddLine(chunk, line)) > SinglePostLimit

\* (chunk + line + "\n").length > 15000
ChunkOverflows(chunk, line) == TextLength(AddLine(chunk, line)) > ChunkLimit

\* NextChunk that starts the new chunk without the line that did not fit
NextChunkDropsLine(lines, line) == ChunkHeader(lines)

\* chunk = header + line + "\n"
NextChunk(lines, line) == AddLine(ChunkHeader(lines), line)

\* the for loop of lines 85-96 from line i (counted from 1) with this chunk,
\* up to its next await or its end
RECURSIVE ChunkLoop(_, _, _)
ChunkLoop(lines, i, chunk) ==
    IF i > Len(lines) THEN [i |-> i, chunk |-> chunk, full |-> FALSE]
    ELSE IF ChunkOverflows(chunk, lines[i])
         THEN [i |-> i, chunk |-> chunk, full |-> TRUE]
         ELSE ChunkLoop(lines, i + 1, AddLine(chunk, lines[i]))

\* LastChunkWanted that also posts a chunk of the header alone
LastChunkWantedAlways(lines, chunk) == TRUE

\* if (chunk.length > header.length)
LastChunkWanted(lines, chunk) == TextLength(chunk) > TextLength(ChunkHeader(lines))

\* name lengths of the packages of a call: a short name, two names whose
\* rows fill a chunk to the limit or one character beyond it, and a name
\* whose row alone is longer than a chunk
PostNameLengths == {5, 3694, 3700, 7500}

PostPackages ==
    [nameLen : PostNameLengths, descLen : {0, 100}, numberOfVersions : {1}]

PostPackageLists == UNION {[1..n -> PostPackages] : n \in 0..MaxPackages}

\* what the webhook answers to a post
PostOutcomes == {"ok", "http_error", "throw"}

InitPost ==
    /\ opts = DefaultOptions
    /\ changeLog = <<>>
    /\ Idle
    /\ unit \in [kind : {"post"}, packages : PostPackageLists, stage : {"called"},
                  i : {0}, chunk : {NoText}, pending : {NoText}, posts : {<<>>}]

\* postPackagesToMattermost is called: lines 62-79 up to the first await
PostCall ==
    /\ unit.kind = "post"
    /\ unit.stage = "called"
    /\ LET text == WholeText(unit.packages)
       IN IF TextLength(text) <= SinglePostLimit
          THEN unit' = [unit EXCEPT !.stage = "single", !.pending = text]
          ELSE unit' = [unit EXCEPT !.stage = "title", !.pending = TitleText]
    /\ UNCHANGED orchVars

\* lines 85-103 from line i with this chunk: the next post is sent, or the
\* function returns
PostNext(lines, i, chunk) ==
    LET r == ChunkLoop(lines, i, chunk)
    IN IF r.full
       THEN [stage |-> "chunk", i |-> r.i, chunk |-> r.chunk, pending |-> r.chunk]
       ELSE IF LastChunkWanted(lines, r.chunk)
       THEN [stage |-> "last", i |-> r.i, chunk |-> r.chunk, pending |-> r.chunk]
       ELSE [stage |-> "returned", i |-> r.i, chunk |-> r.chunk, pending |-> NoText]

\* the webhook answers the post that is out: postToMattermost throws on a
\* transport error or a non-2xx answer, which nothing catches, or the
\* function runs on to its next post or to its end
PostResponds ==
    /\ unit.kind = "post"
    /\ unit.stage \in {"single", "title", "chunk", "last"}
    /\ \E outcome \in PostOutcomes :
         IF outcome # "ok"
         THEN unit' = [unit EXCEPT !.stage = "threw", !.pending = NoText]
         ELSE LET lines == toMarkdownTable(unit.packages)
                  posted == Append(unit.posts, unit.pending)
                  next ==
                     IF unit.stage \in {"single", "last"}
                     THEN [stage |-> "returned", i |-> unit.i, chunk |-> unit.chunk,
                           pending |-> NoText]
                     ELSE IF unit.stage = "title"
                     THEN PostNext(lines, 3, ChunkHeader(lines))
                     ELSE PostNext(lines, unit.i + 1, NextChunk(lines, lines[unit.i]))
              IN unit' = [unit EXCEPT !.stage = next.stage, !.i = next.i,
                                      !.chunk = next.chunk, !.pending = next.pending,
                                      !.posts = posted]
    /\ UNCHANGED orchVars

PostSpec == InitPost /\ [][PostCall \/ PostResponds]_vars

----------------------------------------------------------------------------
(* Claims *)

\* C1: the ResultSet never holds more than maxResults entries, at any point
\* of the run and when it is returned.
C1_ResultSetNeverExceedsMaxResults == Len(results) <= opts.maxResults

\* C2: every entry of the ResultSet was resolved as eligible (first publish
\* inside the recency window, not in the future) and passed every enabled
\* filter: the executable filter, the text filter on name or description,
\* and the size filter, whose count is attached before the entry is appended.
C2_OnlyFilteredCandidatesEnter ==
    \A i \in 1..Len(results) :
        LET r == results[i]
            resolved == getIfFirstVersionRecent(r.name, opts.daysBack, Now)
        IN /\ ~resolved.threw
           /\ resolved.info # Null
           /\ r.publishedAt <= Now
           /\ Now - r.publishedAt <= opts.daysBack * MS_PER_DAY
           /\ opts.requireBin => r.hasBin
           /\ Len(terms) > 0 =>
                 \/ matchesSearch(r.name, terms, opts.partialMatch, TRUE)
                 \/ matchesSearch(r.description, terms, opts.partialMatch, TRUE)
           /\ (opts.minJsLines # None /\ opts.minJsLines[1] > 0) =>
                 /\ r.jsLines # None
                 /\ r.jsLines[1] >= opts.minJsLines[1]

\* C2 witness: with all three filters enabled a page was worked through, one
\* candidate was accepted and another one was not.
C2_Witness ==
    /\ opts.requireBin
    /\ Len(terms) > 0
    /\ opts.minJsLines = Some(2)
    /\ pc = "workers"
    /\ AllWorkersDone
    /\ Len(results) = 1
    /\ Len(takenLog) > 1

\* the run of the same budget with one worker over the feed answers of this
\* run: ids are evaluated one after the other, in page order
RECURSIVE SequentialPage(_, _)
SequentialPage(ns, res) ==
    IF ns = <<>> \/ ~(Len(res) < opts.maxResults) THEN res
    ELSE LET info == Evaluate(Head(ns))
         IN SequentialPage(Tail(ns), IF info = Null THEN res ELSE Append(res, info))

RECURSIVE SequentialRun(_, _)
SequentialRun(k, res) ==
    IF k > Len(fetchLog) \/ ~(Len(res) < opts.maxResults /\ k - 1 < opts.maxPages)
    THEN res
    ELSE IF fetchLog[k].answer # "ok" \/ fetchLog[k].names = <<>> THEN res
    ELSE SequentialRun(k + 1, SequentialPage(fetchLog[k].names, res))

NamesOf(res) == {res[i].name : i \in 1..Len(res)}

\* C3: against the same feed answers and the same metadata the ResultSet a
\* run with one worker or more returns has the same members as the ResultSet
\* of the one-worker run, none duplicated and none missing, at every
\* concurrency and interleaving.
C3_SameMembershipAtEveryConcurrency ==
    (pc = "returned" /\ opts.concurrency >= 1) =>
        LET sequential == SequentialRun(1, <<>>)
        IN /\ NamesOf(results) = NamesOf(sequential)
           /\ Len(results) = Len(sequential)

\* C4: within one page every index of the id list is handed to at most one
\* worker, so no position and no id of a page is resolved twice in that page.
C4_IndexTakenAtMostOnce ==
    \A i, j \in 1..Len(takenLog) :
        (i # j /\ takenLog[i].page = takenLog[j].page) =>
            /\ takenLog[i].index # takenLog[j].index
            /\ takenLog[i].name # takenLog[j].name

\* C4 witness: two workers have each taken a candidate of the same page and
\* a third candidate was taken after one of them finished.
C4_Witness ==
    \E i, j, k \in 1..Len(takenLog) :
        /\ i < j /\ j < k
        /\ takenLog[i].page = takenLog[k].page
        /\ takenLog[j].page = takenLog[k].page
        /\ takenLog[i].worker # takenLog[j].worker

\* C5: in a step that leaves the ResultSet with maxResults entries or more,
\* and in every later step, no worker takes a candidate and no page is
\* requested.
C5_NoNewWorkOnceFull ==
    [][Len(results') >= opts.maxResults =>
          /\ takenLog' = takenLog
          /\ fetchLog' = fetchLog]_vars

\* C5 witness: the run returned with a full ResultSet while ids of the page
\* were never taken and pages remained in the budget.
C5_Witness ==
    /\ pc = "returned"
    /\ opts.maxResults >= 1
    /\ Len(results) >= opts.maxResults
    /\ index < Len(names)
    /\ pageNumber < opts.maxPages

\* C6: when request k of the feed is answered with zero ids, request k is the
\* last one of the run, no candidate of page k is taken by a worker, and the
\* run returns the results it has.
C6_EmptyPageStopsPagination ==
    \A k \in 1..Len(fetchLog) :
        (fetchLog[k].answer = "ok" /\ fetchLog[k].names = <<>>) =>
            /\ Len(fetchLog) = k
            /\ pc = "returned"
            /\ \A i \in 1..Len(takenLog) : takenLog[i].page # k
            /\ \A w \in Workers : wpc[w] # "meta" /\ wpc[w] # "lines"

\* C6 witness: the second page came back without ids, with pages left in the
\* budget and a result collected from the first page.
C6_Witness ==
    /\ Len(fetchLog) = 2
    /\ fetchLog[2].answer = "ok"
    /\ fetchLog[2].names = <<>>
    /\ opts.maxPages > 2
    /\ Len(results) = 1
    /\ pc = "returned"

\* C7: a run requests at most maxPages pages and requests a page only while
\* the ResultSet holds fewer than maxResults entries; a run whose ResultSet
\* is full after a page requests no further page.
C7_PageBudgetAndFullStop ==
    /\ Len(fetchLog) <= opts.maxPages
    /\ \A k \in 1..Len(fetchLog) : fetchLog[k].size < opts.maxResults
    /\ Len(results) >= opts.maxResults => pc \in {"idle", "workers", "returned"}

\* C7 witness: the run returned with a full ResultSet after a page that had
\* ids, with pages left in the budget.
C7_Witness ==
    /\ pc = "returned"
    /\ Len(results) >= opts.maxResults
    /\ Len(fetchLog) >= 1
    /\ Len(fetchLog) < opts.maxPages
    /\ fetchLog[Len(fetchLog)].names # <<>>

\* the runs that use neither the text filter nor the executable filter
InitPlainText ==
    Init /\ opts.searchTerms = <<>> /\ opts.partialMatch /\ ~opts.requireBin

\* every request that is out is answered, and every continuation that can
\* run does run
FairSpec == InitPlainText /\ [][Next]_vars /\ WF_vars(Next)

\* C8: every run ends: it returns a ResultSet or aborts with the feed error.
C8_RunTerminates == <>(pc \in {"returned", "aborted"})

\* C8 witness: a run that used its whole page budget, with a stuck feed,
\* has returned.
C8_Witness ==
    /\ pc = "returned"
    /\ opts.maxPages = MaxPagesBound
    /\ Len(fetchLog) = opts.maxPages
    /\ fetchLog[Len(fetchLog)].last_seq = fetchLog[Len(fetchLog)].since

\* C9: when the feed answers request k with a last_seq equal to the cursor
\* request k was made with, no request k+1 is made with that cursor again
\* (stated for the runs that have a worker).
C9_StuckCursorIsNotRefetched ==
    \A k \in 1..Len(fetchLog) :
        (/\ opts.concurrency >= 1
         /\ fetchLog[k].answer = "ok"
         /\ fetchLog[k].last_seq = fetchLog[k].since) =>
            ~(k + 1 <= Len(fetchLog) /\ fetchLog[k + 1].since = fetchLog[k].since)

\* C10: when a request of the feed fails, on any page, the run aborts: it is
\* the last request, nothing is returned, and no candidate of that page is
\* evaluated.
C10_FeedFailureAbortsRun ==
    \A k \in 1..Len(fetchLog) :
        fetchLog[k].answer \in {"http_error", "throw"} =>
            /\ pc = "aborted"
            /\ Len(fetchLog) = k
            /\ \A i \in 1..Len(takenLog) : takenLog[i].page < k
            /\ \A w \in Workers : wpc[w] # "meta" /\ wpc[w] # "lines"

\* C10 witness: the second request failed after the first page had produced
\* a result.
C10_Witness ==
    /\ Len(fetchLog) = 2
    /\ fetchLog[2].answer = "http_error"
    /\ Len(results) >= 1
    /\ pc = "aborted"

\* the candidate of takenLog[i] is still being evaluated by its worker
InFlight(i) ==
    /\ pc = "workers"
    /\ takenLog[i].page = pageNumber
    /\ wpc[takenLog[i].worker] \in {"meta", "lines"}
    /\ wcur[takenLog[i].worker] = takenLog[i].index

\* the metadata request of this candidate fails: non-2xx or transport error
MetadataFails(name) == RegistryDoc(name).fetch # "ok"

\* C11: a failure while one candidate is evaluated never aborts the page or
\* the run.  The run aborts only on a failed change-feed request; a worker
\* leaves its loop only when the page is used up or the ResultSet is full;
\* the failed candidate adds nothing to the ResultSet; and when the pool of a
\* page has finished below the target every index of the page was taken.
C11_CandidateFailureIsSkipped ==
    /\ pc = "aborted" =>
          /\ Len(fetchLog) > 0
          /\ fetchLog[Len(fetchLog)].answer \in {"http_error", "throw"}
    /\ pc = "workers" =>
          \A w \in 1..opts.concurrency :
             wpc[w] = "done" =>
                index >= Len(names) \/ Len(results) >= opts.maxResults
    /\ \A k \in 1..Len(results) : ~MetadataFails(results[k].name)
    /\ (pc = "workers" /\ AllWorkersDone /\ opts.concurrency >= 1
          /\ Len(results) < opts.maxResults) =>
          \A j \in 0..(Len(names) - 1) :
             \E i \in 1..Len(takenLog) :
                takenLog[i].page = pageNumber /\ takenLog[i].index = j

\* one worker met a non-2xx candidate, then one whose request threw, then
\* evaluated and accepted the next candidate of the same page
C11_Witness ==
    /\ pc = "workers"
    /\ AllWorkersDone
    /\ \E i, j, k \in 1..Len(takenLog) :
          /\ i < j /\ j < k
          /\ takenLog[i].page = takenLog[k].page
          /\ takenLog[j].page = takenLog[k].page
          /\ takenLog[i].worker = takenLog[k].worker
          /\ takenLog[j].worker = takenLog[k].worker
          /\ RegistryDoc(takenLog[i].name).fetch = "http_error"
          /\ RegistryDoc(takenLog[j].name).fetch = "throw"
          /\ \E r \in 1..Len(results) :
                results[r].name = takenLog[k].name
                   /\ takenLog[k].size = r - 1

\* the call of the resolver has returned for a document that was fetched and
\* has a version and a parseable first-publish time
Resolved ==
    /\ unit.kind = "resolve"
    /\ unit.out # None
    /\ unit.data.fetch = "ok"
    /\ Len(unit.data.versions) > 0
    /\ unit.data.created.kind = "date"

AgeMsOfUnit == Now - unit.data.created.ms
AgeInWholeDays == AgeMsOfUnit \div MS_PER_DAY
Accepted == unit.out[1].info # Null

C15_FutureFirstPublishRejected ==
    (Resolved /\ unit.data.created.ms > Now) => ~Accepted

\* a call for a package first published one millisecond from now has returned
C15_Witness ==
    /\ Resolved
    /\ unit.data.created.ms = Now + 1
    /\ unit.daysBack = MaxDaysBack
    /\ ~Accepted

\* the stages of the Line Counter whose failure the claim names
CountFailures ==
    {"mkdir", "metadata", "version", "download", "mkdirExtract", "body",
     "pipeline", "extract", "walk"}

\* C12: the Line Counter never propagates an error.  Its promise is never
\* rejected; when it has returned after a failed metadata fetch, a missing
\* version or tarball URL, a failed download, a missing body, a failed
\* extraction or a failed file-system call it has returned 0, and otherwise
\* the number of lines counted in the archive.
C12_LineCounterReturnsZeroOnFailure ==
    unit.kind = "count" =>
       /\ unit.pc # "rejected"
       /\ unit.pc = "returned" =>
             /\ unit.ret # None
             /\ unit.failed \cap CountFailures # {} => unit.ret = Some(0)
             /\ (unit.data.fetch # "ok" \/ VersionData(unit.data, unit.version) = None)
                   => unit.ret = Some(0)
             /\ unit.failed \cap CountFailures = {} =>
                   unit.ret = Some(VersionData(unit.data, unit.version)[1].tarball.lines)

\* a call for a version the package does not have has returned 0
C12_Witness ==
    /\ unit.kind = "count"
    /\ unit.pc = "returned"
    /\ unit.data.fetch = "ok"
    /\ VersionData(unit.data, unit.version) = None
    /\ unit.ret = Some(0)

\* C13 as stated: whenever the Line Counter has returned, the scratch
\* directory it created no longer exists.
C13_ScratchGoneAfterReturn ==
    (unit.kind = "count" /\ unit.pc = "returned") => ~unit.tempDir

\* C13, amended: whenever the Line Counter has returned, by any exit path, it
\* has tried to remove the scratch directory, and the directory no longer
\* exists unless that removal itself failed (the failure is ignored).
C13_ScratchRemovalAttemptedOnEveryExit ==
    (unit.kind = "count" /\ unit.pc = "returned") =>
       /\ unit.rmCalled
       /\ unit.tempDir => "rm" \in unit.failed

\* an early return of 0 after the scratch directory was made, directory gone
C13_Witness ==
    /\ unit.kind = "count"
    /\ unit.pc = "returned"
    /\ "download" \in unit.failed
    /\ unit.rmCalled
    /\ ~unit.tempDir

\* the three stages before the line count, for the candidate called name:
\* resolved as eligible, executable filter, text filter
PassedEarlierStages(name) ==
    LET r == getIfFirstVersionRecent(name, opts.daysBack, Now)
    IN /\ ~r.threw
       /\ r.info # Null
       /\ opts.requireBin => r.info.hasBin
       /\ terms # <<>> =>
             \/ matchesSearch(r.info.name, terms, opts.partialMatch, TRUE)
             \/ matchesSearch(r.info.description, terms, opts.partialMatch, TRUE)

\* C16: the Line Counter is invoked for a candidate only after the candidate
\* was resolved as eligible and passed the executable and the text filter;
\* when minSourceLines is unset it is never invoked and sourceLineCount stays
\* unset on every result.
C16_LineCountOnlyAfterEarlierStages ==
    /\ \A w \in Workers :
          wpc[w] = "lines" =>
             /\ pc = "workers"
             /\ opts.minJsLines # None
             /\ PassedEarlierStages(names[wcur[w] + 1])
             /\ winfo[w] = getIfFirstVersionRecent(names[wcur[w] + 1],
                                                   opts.daysBack, Now).info
    /\ opts.minJsLines = None =>
          /\ \A w \in Workers : wpc[w] # "lines"
          /\ \A k \in 1..Len(results) : results[k].jsLines = None

\* with all three filters on, one worker is counting the lines of a candidate
\* while the other has turned its candidate away without a line count
C16_Witness ==
    /\ opts.requireBin
    /\ opts.searchTerms # <<>>
    /\ opts.minJsLines = Some(2)
    /\ wpc[1] = "lines"
    /\ wpc[2] = "done"
    /\ Len(takenLog) = 2
    /\ ~PassedEarlierStages(takenLog[2].name)

\* C17: when minSourceLines is 0, every candidate that passed the executable
\* and text filters has its line count computed and stored, and is accepted
\* whatever the count, a count of 0 from a failed line count included.
C17_ZeroThresholdCountsAndAccepts ==
    opts.minJsLines = Some(0) =>
       /\ \A k \in 1..Len(results) :
             results[k].jsLines =
                Some(countJsLinesInPackage(results[k].name, results[k].version))
       /\ \A n \in {takenLog[i].name : i \in 1..Len(takenLog)} :
             Cardinality({i \in 1..Len(takenLog) :
                             /\ takenLog[i].name = n
                             /\ ~InFlight(i)
                             /\ PassedEarlierStages(n)})
                = Cardinality({k \in 1..Len(results) : results[k].name = n})

\* a run with minSourceLines 0 has returned a package whose archive could not
\* be downloaded, stored with a count of 0
C17_Witness ==
    /\ opts.minJsLines = Some(0)
    /\ pc = "returned"
    /\ \E k \in 1..Len(results) :
          results[k].name = PkgABC /\ results[k].jsLines = Some(0)

\* term occurs in text at position i, letter case ignored
OccursIgnoringCase(text, term, i) ==
    /\ i >= 1
    /\ i + Len(term) - 1 <= Len(text)
    /\ \A k \in 1..Len(term) : LowerChar(text[i + k - 1]) = LowerChar(term[k])

\* substring containment, letter case ignored
ContainsIgnoringCase(text, term) ==
    \E i \in 1..Len(text) : OccursIgnoringCase(text, term, i)

\* whole-word match with word-boundary semantics, letter case ignored: an
\* occurrence whose first character is a word character exactly when the
\* character before the occurrence is none (absent or not a word character),
\* and likewise for its last character and the character after it
WholeWordIgnoringCase(text, term) ==
    \E i \in 1..Len(text) :
       /\ OccursIgnoringCase(text, term, i)
       /\ LET last == i + Len(term) - 1
              wordBefore == i > 1 /\ text[i - 1] \in Letters
              wordAfter == last < Len(text) /\ text[last + 1] \in Letters
          IN /\ (term[1] \in Letters) # wordBefore
             /\ (term[Len(term)] \in Letters) # wordAfter

TermMatches(text, term, partialMatch) ==
    IF partialMatch THEN ContainsIgnoringCase(text, term)
    ELSE WholeWordIgnoringCase(text, term)

AllTermsMatch(text, termList, partialMatch) ==
    \A k \in 1..Len(termList) : TermMatches(text, termList[k], partialMatch)

\* C18: with search terms, a candidate passes the text filter exactly when
\* its name alone matches every term or its description alone matches every
\* term; a candidate whose terms are matched partly by the name and partly by
\* the description, neither matching all, is rejected.
C18_NameAloneOrDescriptionAlone ==
    (unit.kind = "filter" /\ unit.out # None /\ terms # <<>>) =>
       unit.out[1] =
          /\ opts.requireBin => unit.info.hasBin
          /\ \/ AllTermsMatch(unit.info.name, terms, opts.partialMatch)
             \/ AllTermsMatch(unit.info.description, terms, opts.partialMatch)

\* two terms, the first matched only by the name and the second only by the
\* description: the candidate was rejected
C18_Witness ==
    /\ unit.kind = "filter"
    /\ unit.out = Some(FALSE)
    /\ ~opts.requireBin
    /\ Len(terms) = 2
    /\ TermMatches(unit.info.name, terms[1], opts.partialMatch)
    /\ ~TermMatches(unit.info.name, terms[2], opts.partialMatch)
    /\ TermMatches(unit.info.description, terms[2], opts.partialMatch)
    /\ ~TermMatches(unit.info.description, terms[1], opts.partialMatch)

\* C19: with partialMatch the match of a term is substring containment, and
\* without it a whole-word match, both ignoring letter case: a text that holds
\* the term inside a longer word matches only with partialMatch, a text that
\* holds it as a word of its own matches either way.
C19_SubstringOrWholeWord ==
    (unit.kind = "match" /\ unit.out # None /\ Len(unit.terms) = 1) =>
       /\ unit.out[1] = TermMatches(unit.text, unit.terms[1], unit.partialMatch)
       /\ (unit.text = <<"a", "B">> /\ unit.terms = <<<<"A">>>>) =>
             unit.out[1] = unit.partialMatch
       /\ (unit.text \in {<<"a", " ", "B">>, <<"B", "-", "a">>, <<"a">>}
             /\ unit.terms = <<<<"A">>>>) => unit.out[1]

\* the text aB was searched for the term A whole-word, and did not match
C19_Witness ==
    /\ unit.kind = "match"
    /\ unit.text = <<"a", "B">>
    /\ unit.terms = <<<<"A">>>>
    /\ ~unit.partialMatch
    /\ unit.out = Some(FALSE)

\* C20: matchesSearch is TRUE exactly when every term matches the text.  An
\* empty term list gives TRUE for every text, the empty one included; with
\* terms, an empty or all-white-space text gives FALSE.
C20_EveryTermMustMatch ==
    (unit.kind = "match" /\ unit.out # None) =>
       /\ unit.out[1] = AllTermsMatch(unit.text, unit.terms, unit.partialMatch)
       /\ unit.terms = <<>> => unit.out[1]
       /\ (unit.terms # <<>> /\ \A i \in 1..Len(unit.text) : unit.text[i] \in WhiteSpace)
             => ~unit.out[1]

\* a text matched by the first of two terms and not by the second: FALSE
C20_Witness ==
    /\ unit.kind = "match"
    /\ Len(unit.terms) = 2
    /\ TermMatches(unit.text, unit.terms[1], unit.partialMatch)
    /\ ~TermMatches(unit.text, unit.terms[2], unit.partialMatch)
    /\ unit.out = Some(FALSE)

\* position of the first row of rows whose id is id
FirstRowOf(rows, id) == CHOOSE i \in 1..Len(rows) : rows[i] = id /\ \A j \in 1..(i - 1) : rows[j] # id

\* a row that the paginator keeps: it has an id, and not a design document's
IsPackageRow(id) == id # <<>> /\ id[1] # "_design/"

\* C21: the page returned for an answer holds the package ids of the answer
\* in first-seen order, each once; rows with no id and design documents are
\* left out, every other id is in; the cursor returned is the answer's
\* last_seq.
C21_PageIsUniqueIdsInFirstSeenOrder ==
    (unit.kind = "page" /\ unit.out # None /\ ~unit.out[1].threw) =>
       LET rows == unit.response.rows
           page == unit.out[1].names
       IN /\ \A i, j \in 1..Len(page) : page[i] = page[j] => i = j
          /\ \A i \in 1..Len(page) :
                IsPackageRow(page[i]) /\ \E r \in 1..Len(rows) : rows[r] = page[i]
          /\ \A r \in 1..Len(rows) :
                IsPackageRow(rows[r]) => \E i \in 1..Len(page) : page[i] = rows[r]
          /\ \A i, j \in 1..Len(page) :
                i < j => FirstRowOf(rows, page[i]) < FirstRowOf(rows, page[j])
          /\ unit.out[1].lastSeq = unit.response.last_seq

\* an answer with a repeated id, a design document and a row with no id gave
\* a page of one name
C21_Witness ==
    /\ unit.kind = "page"
    /\ unit.out # None
    /\ ~unit.out[1].threw
    /\ Len(unit.response.rows) = MaxRows
    /\ \E i, j \in 1..Len(unit.response.rows) :
          i < j /\ unit.response.rows[i] = PkgC /\ unit.response.rows[j] = PkgC
    /\ unit.out[1].names = <<PkgC>>

\* the files of a tree that can be reached: not below a directory named
\* node_modules or beginning with a dot, nor below one that cannot be listed
RECURSIVE ReachedFiles(_)
ReachedFiles(entries) ==
    IF entries = <<>> THEN <<>>
    ELSE LET e == Head(entries)
             here == IF e.kind = "file" THEN <<e>>
                     ELSE IF e.kind = "dir" /\ e.name # <<"node_modules">>
                             /\ ~(e.name # <<>> /\ e.name[1] = ".")
                             /\ e.readable
                     THEN ReachedFiles(e.entries)
                     ELSE <<>>
         IN here \o ReachedFiles(Tail(entries))

\* some directory that the walk lists cannot be listed
RECURSIVE UnlistableDirectory(_)
UnlistableDirectory(entries) ==
    \E i \in 1..Len(entries) :
       /\ entries[i].kind = "dir"
       /\ entries[i].name # <<"node_modules">>
       /\ ~(entries[i].name # <<>> /\ entries[i].name[1] = ".")
       /\ ~entries[i].readable \/ UnlistableDirectory(entries[i].entries)

HasSourceExtension(name) ==
    \E n \in 1..Len(name) :
       /\ name[n] = "."
       /\ [i \in 1..(Len(name) - n) |-> LowerChar(name[n + i])]
             \in {<<"j", "s">>, <<"j", "s", "x">>, <<"t", "s">>, <<"t", "s", "x">>,
                  <<"m", "j", "s">>, <<"c", "j", "s">>}

\* number of line separators of the file, plus one
LinesOfFile(f) == Cardinality({i \in 1..Len(f.content) : f.content[i] = "\n"}) + 1

RECURSIVE SumOfLines(_)
SumOfLines(files) ==
    IF files = <<>> THEN 0
    ELSE (IF Head(files).readable /\ HasSourceExtension(Head(files).name)
          THEN LinesOfFile(Head(files)) ELSE 0) + SumOfLines(Tail(files))

ExpectedLines(root) == SumOfLines(ReachedFiles(root.entries))

\* C22 as stated: for an extracted tree the Line Counter returns the sum,
\* over the readable files with a source extension outside node_modules and
\* dot-prefixed directories, of (line separators + 1).
C22_SumOverReachedSourceFiles ==
    (unit.kind = "walk" /\ unit.out # None) =>
       unit.out[1] = ExpectedLines(unit.root)

\* C22, amended: the Line Counter returns that sum when every directory the
\* walk lists can be listed; when one of them cannot, the walk fails as a
\* whole and the Line Counter returns 0, whatever the other files hold.
C22_SumUnlessDirectoryUnlistable ==
    (unit.kind = "walk" /\ unit.out # None) =>
       unit.out[1] = IF UnlistableDirectory(unit.root.entries) THEN 0
                     ELSE ExpectedLines(unit.root)

\* a tree of one two-line .ts file and one .md file has been counted as 2
C22_Witness ==
    /\ unit.kind = "walk"
    /\ unit.root.entries =
          <<File(<<"a", ".", "t", "s">>, TRUE, <<"x", "\n", "x">>),
            File(<<"a", ".", "m", "d">>, TRUE, <<"x", "\n">>)>>
    /\ unit.out = Some(2)

\* s is one or more decimal digits
AllDigits(s) == s # <<>> /\ \A i \in 1..Len(s) : s[i] \in {"0", "1", "2"}

\* the number a string of digits writes
RECURSIVE ValueOfDigits(_)
ValueOfDigits(s) ==
    IF s = <<>> THEN 0
    ELSE (CASE Head(s) = "0" -> 0 [] Head(s) = "1" -> 1 [] Head(s) = "2" -> 2)
            * (10 ^ (Len(s) - 1)) + ValueOfDigits(Tail(s))

\* the input without the spaces around it
Core(input) ==
    LET inside == {i \in 1..Len(input) : input[i] # " "}
    IN IF inside = {} THEN <<>>
       ELSE SubSeq(input, CHOOSE i \in inside : \A j \in inside : i <= j,
                          CHOOSE i \in inside : \A j \in inside : i >= j)

UnitDays(c) ==
    CASE c \in {"d", "D"} -> 1 [] c = "w" -> 7 [] c = "m" -> 30 [] c = "y" -> 365

\* text is "<n><unit>" for a positive integer n
IsAmountAndUnit(text) ==
    /\ Len(text) >= 2
    /\ AllDigits(SubSeq(text, 1, Len(text) - 1))
    /\ ValueOfDigits(SubSeq(text, 1, Len(text) - 1)) > 0
    /\ text[Len(text)] \in {"d", "D", "w", "m", "y"}

\* text is a plain positive integer
IsPositiveInteger(text) == AllDigits(text) /\ ValueOfDigits(text) > 0

IsPositiveDecimal(text) ==
    \E p \in 1..Len(text) :
       /\ text[p] = "."
       /\ Len(text) >= 2
       /\ \A i \in 1..Len(text) : i # p => text[i] \in {"0", "1", "2"}
       /\ \E i \in 1..Len(text) : text[i] \in {"1", "2"}

\* text is "<n>", spaces, "<unit>" for a positive integer n
IsAmountSpacesUnit(text) ==
    \E k \in 1..(Len(text) - 2) :
       /\ AllDigits(SubSeq(text, 1, k))
       /\ ValueOfDigits(SubSeq(text, 1, k)) > 0
       /\ \A i \in (k + 1)..(Len(text) - 1) : text[i] = " "
       /\ text[Len(text)] \in {"d", "D", "w", "m", "y"}

AcceptedEvaluations(n) ==
    Cardinality({i \in 1..Len(takenLog) :
                    takenLog[i].name = n /\ ~InFlight(i) /\ Evaluate(n) # Null})

\* C24: a worker that holds a candidate when the ResultSet reaches maxResults
\* is not cancelled.  Every candidate that was taken is evaluated to the end
\* and appended when it survives, full ResultSet or not, and the run does not
\* return while a worker still holds a candidate.
C24_InFlightCandidateIsFinished ==
    /\ pc \in {"returned", "aborted", "fetching", "idle"} =>
          \A w \in Workers : wpc[w] \notin {"meta", "lines"}
    /\ \A n \in {takenLog[i].name : i \in 1..Len(takenLog)} :
          AcceptedEvaluations(n)
             = Cardinality({k \in 1..Len(results) : results[k].name = n})

\* the run has returned with an entry appended by a worker that had taken
\* its candidate before the ResultSet was full and finished it afterwards
C24_Witness ==
    /\ pc = "returned"
    /\ opts.maxResults >= 1
    /\ \E i \in 1..Len(takenLog) :
          /\ takenLog[i].size < opts.maxResults
          /\ \E k \in 1..Len(results) :
                /\ k > opts.maxResults
                /\ results[k].name = takenLog[i].name

\* what is sent for a cursor: nothing for a missing or falsy one
Sent(cursor) == IF cursor = <<>> \/ cursor = <<0>> THEN <<>> ELSE cursor

\* C25 as stated: the first request of a run carries no cursor, and every
\* later request carries exactly the last_seq the request before it returned.
C25_CursorIsPreviousLastSeq ==
    /\ Len(fetchLog) >= 1 => fetchLog[1].since = None
    /\ \A k \in 2..Len(fetchLog) : fetchLog[k].since = fetchLog[k - 1].last_seq

\* C25, amended: the first request carries no cursor, and every later request
\* carries the last_seq the request before it returned, unless that last_seq
\* is falsy (0 or empty): then the request carries no cursor.
C25_CursorIsPreviousLastSeqUnlessFalsy ==
    /\ Len(fetchLog) >= 1 => fetchLog[1].since = None
    /\ \A k \in 2..Len(fetchLog) :
          fetchLog[k].since = Sent(fetchLog[k - 1].last_seq)

\* three requests, the second and third each with the cursor returned before
C25_Witness ==
    /\ Len(fetchLog) = 3
    /\ fetchLog[1].since = None
    /\ fetchLog[2].since = fetchLog[1].last_seq
    /\ fetchLog[3].since = fetchLog[2].last_seq
    /\ fetchLog[2].since # None
    /\ fetchLog[3].since # fetchLog[2].since

\* C26: pages are processed one at a time.  While a page is being fetched no
\* worker holds a candidate, and a worker that holds one holds a candidate of
\* the page fetched last.
C26_OnePageAtATime ==
    /\ pc = "fetching" => \A w \in Workers : wpc[w] \notin {"meta", "lines"}
    /\ \A w \in Workers :
          wpc[w] \in {"meta", "lines"} =>
             /\ pc = "workers"
             /\ pageNumber = Len(fetchLog)
             /\ names = fetchLog[Len(fetchLog)].names
             /\ \E i \in 1..Len(takenLog) :
                   /\ takenLog[i].page = pageNumber
                   /\ takenLog[i].worker = w
                   /\ takenLog[i].index = wcur[w]
                   /\ takenLog[i].name = names[wcur[w] + 1]
    /\ \A i \in 1..Len(takenLog) :
          takenLog[i].page < pageNumber => ~InFlight(i)

\* page 2 is being fetched after two workers shared page 1
C26_Witness ==
    /\ pc = "fetching"
    /\ pageNumber = 2
    /\ \E i, j \in 1..Len(takenLog) :
          /\ takenLog[i].page = 1 /\ takenLog[j].page = 1
          /\ takenLog[i].worker # takenLog[j].worker
    /\ \A w \in 1..opts.concurrency : wpc[w] = "done"

\* res is sub with entries added at its end
IsExtensionOf(res, sub) == Len(sub) <= Len(res) /\ SubSeq(res, 1, Len(sub)) = sub

\* C27: the ResultSet is append-only.  Every step leaves it as it is or adds
\* one entry at its end, the candidate of a worker that finished with that
\* step; so its order is the order of acceptance, not that of the feed.
C27_ResultSetIsAppendOnly ==
    [][/\ IsExtensionOf(results', results)
       /\ Len(results') <= Len(results) + 1
       /\ Len(results') = Len(results) + 1 =>
             \E w \in Workers :
                /\ wpc[w] \in {"meta", "lines"}
                /\ wpc'[w] \notin {"meta", "lines"} \/ wcur'[w] # wcur[w]
                /\ results'[Len(results')].name = names[wcur[w] + 1]]_vars

\* two candidates of one page stand in the ResultSet in the reverse of their
\* order in the page
C27_Witness ==
    \E i, j \in 1..Len(takenLog) :
       /\ takenLog[i].page = takenLog[j].page
       /\ takenLog[i].index < takenLog[j].index
       /\ Len(results) = 2
       /\ results[1].name = takenLog[j].name
       /\ results[2].name = takenLog[i].name
       /\ results[1].name # results[2].name

\* C28: with at least one worker, when the workers of a page have finished
\* and the ResultSet holds fewer than maxResults entries, every index of the
\* page was taken exactly once, for the id at that index.
C28_EveryIdOfPageEvaluatedOnce ==
    (/\ pc = "workers"
     /\ opts.concurrency >= 1
     /\ AllWorkersDone
     /\ Len(results) < opts.maxResults) =>
       \A j \in 0..(Len(names) - 1) :
          LET takes == {i \in 1..Len(takenLog) :
                           takenLog[i].page = pageNumber /\ takenLog[i].index = j}
          IN /\ Cardinality(takes) = 1
             /\ \A i \in takes : takenLog[i].name = names[j + 1] /\ ~InFlight(i)

\* two workers have finished a page of three ids below the target
C28_Witness ==
    /\ pc = "workers"
    /\ opts.concurrency = 2
    /\ AllWorkersDone
    /\ Len(names) = 3
    /\ Len(results) < opts.maxResults
    /\ \E i, j \in 1..Len(takenLog) :
          /\ takenLog[i].page = pageNumber /\ takenLog[j].page = pageNumber
          /\ takenLog[i].worker # takenLog[j].worker

\* the call of the resolver has returned for a document that was fetched
Fetched ==
    /\ unit.kind = "resolve"
    /\ unit.out # None
    /\ unit.data.fetch = "ok"

\* C29: whatever the window, the resolver returns absent for a document
\* with no published version, with no created time or with a created time
\* that does not parse; a document with any positive number of versions
\* whose first publish lies inside the window is eligible, and the info
\* reports the number of its versions.
C29_AbsentWithoutVersionOrCreated ==
    Fetched =>
       /\ (\/ Len(unit.data.versions) = 0
           \/ unit.data.created.kind \in {"missing", "invalid"}) => ~Accepted
       /\ (/\ Len(unit.data.versions) > 0
           /\ unit.data.created.kind = "date"
           /\ AgeMsOfUnit >= 0
           /\ AgeMsOfUnit <= unit.daysBack * MS_PER_DAY) =>
             /\ Accepted
             /\ unit.out[1].info.numberOfVersions = Len(unit.data.versions)

\* a package of two versions, first published inside the window, is accepted
C29_Witness ==
    /\ Resolved
    /\ Len(unit.data.versions) = 2
    /\ AgeMsOfUnit = MS_PER_DAY
    /\ unit.daysBack = 1
    /\ Accepted
    /\ unit.out[1].info.numberOfVersions = 2

\* the versions map of the document has the key v
HasVersion(v) == \E k \in 1..Len(unit.data.versions) : unit.data.versions[k].version = v

\* the metadata of version v of the document declares a bin entry
DeclaresBin(v) ==
    \E k \in 1..Len(unit.data.versions) :
       unit.data.versions[k].version = v /\ unit.data.versions[k].bin >= 1

\* C30: the info of an eligible package names the latest dist-tag when the
\* document has one and the last key of the versions map otherwise; hasBin
\* is true iff the metadata of that version declares at least one bin
\* entry, and false when the dist-tag names a version the map does not hold.
C30_LatestVersionAndHasBin ==
    (Resolved /\ Accepted) =>
       LET info == unit.out[1].info
           lastKey == unit.data.versions[Len(unit.data.versions)].version
       IN /\ unit.data.latest # None => info.version = unit.data.latest[1]
          /\ unit.data.latest = None => info.version = lastKey
          /\ info.hasBin <=> DeclaresBin(info.version)
          /\ (unit.data.latest # None /\ ~HasVersion(unit.data.latest[1])) =>
                ~info.hasBin

\* the dist-tag names the first of two versions, the only one with a bin entry
C30_Witness ==
    /\ Resolved
    /\ Accepted
    /\ Len(unit.data.versions) = 2
    /\ unit.data.latest = Some("0.1.0")
    /\ unit.out[1].info.version = "0.1.0"
    /\ unit.out[1].info.hasBin
    /\ ~DeclaresBin(unit.data.versions[2].version)

\* the dist-tag names a version the map does not hold, and the only version
\* of the map declares a bin entry
C30_AbsentLatestReached ==
    /\ Resolved
    /\ Accepted
    /\ Len(unit.data.versions) = 1
    /\ unit.data.latest = Some("0.1.0")
    /\ DeclaresBin("1.0.0")
    /\ ~unit.out[1].info.hasBin

\* the line count of this info fails: the archive of its version has no
\* address, or cannot be downloaded or unpacked
LineCountFails(info) ==
    LET versionData == VersionData(RegistryDoc(info.name), info.version)
    IN \/ RegistryDoc(info.name).fetch # "ok"
       \/ versionData = None
       \/ ~versionData[1].tarball.url
       \/ versionData[1].tarball.download # "ok"
       \/ versionData[1].tarball.extract # "ok"

\* worker w's line count resolves with this step
LineCountSettles(w) == wpc[w] = "lines" /\ winfo[w] # Null /\ winfo'[w] = Null

\* C31: with minSourceLines >= 1, a candidate whose line count fails is
\* counted at 0 and turned away by the size filter.  The step in which the
\* failed count comes back leaves the ResultSet as it is, aborts neither the
\* page nor the run, and moves the worker on from the candidate; the
\* candidate is counted once and never enters the ResultSet.
C31_FailedLineCountIsRejected ==
    /\ [][\A w \in Workers :
            (hasJsLinesFilter /\ LineCountSettles(w) /\ LineCountFails(winfo[w])) =>
               /\ countJsLinesInPackage(winfo[w].name, winfo[w].version) = 0
               /\ results' = results
               /\ pc' = "workers"
               /\ wpc'[w] \in {"meta", "done"}
               /\ wpc'[w] = "meta" => wcur'[w] > wcur[w]
               /\ lastSeq' = lastSeq /\ pageNumber' = pageNumber]_vars
    /\ [](hasJsLinesFilter =>
            \A k \in 1..Len(results) :
               ~LineCountFails(results[k]))
    /\ [](\A i, j \in 1..Len(takenLog) :
            (takenLog[i].page = takenLog[j].page
                /\ takenLog[i].index = takenLog[j].index) => i = j)

\* with minSourceLines 2 a package whose archive cannot be downloaded has
\* passed the earlier stages and was given up, and the run has gone on to a
\* later page
C31_Witness ==
    /\ opts.minJsLines = Some(2)
    /\ \E i, j \in 1..Len(takenLog) :
          /\ takenLog[i].name = PkgABC
          /\ PassedEarlierStages(PkgABC)
          /\ LineCountFails(getIfFirstVersionRecent(PkgABC, opts.daysBack, Now).info)
          /\ takenLog[j].page > takenLog[i].page
    /\ \A k \in 1..Len(results) : results[k].name # PkgABC

\* the pages of the run on which the id n was taken by a worker
PagesTaking(n) == {takenLog[i].page : i \in {j \in 1..Len(takenLog) : takenLog[j].name = n}}

\* the pages on which the evaluation of n has finished
PagesFinished(n) ==
    {takenLog[i].page :
        i \in {j \in 1..Len(takenLog) : takenLog[j].name = n /\ ~InFlight(j)}}

\* C32: ids are not remembered from one page to the next.  When the workers
\* of a page finish below the target, every id of the page that was already
\* taken on an earlier page has been taken again on this page; and an id
\* that passes is in the ResultSet once for every page on which its
\* evaluation has finished.
C32_NoDeduplicationAcrossPages ==
    /\ (/\ pc = "workers"
        /\ opts.concurrency >= 1
        /\ AllWorkersDone
        /\ Len(results) < opts.maxResults) =>
          \A k \in 1..Len(names) :
             (\E p \in PagesTaking(names[k]) : p < pageNumber) =>
                pageNumber \in PagesTaking(names[k])
    /\ \A n \in {takenLog[i].name : i \in 1..Len(takenLog)} :
          Evaluate(n) # Null =>
             Cardinality({k \in 1..Len(results) : results[k].name = n})
                = Cardinality(PagesFinished(n))

\* the run has returned the same package twice, taken on two different pages
C32_Witness ==
    /\ pc = "returned"
    /\ Len(results) = 2
    /\ results[1].name = results[2].name
    /\ Cardinality(PagesFinished(results[1].name)) = 2

\* the number of candidates taken from the page and not yet settled
CandidatesInFlight ==
    Cardinality({w \in Workers : pc = "workers" /\ wpc[w] \in {"meta", "lines"}})

\* C33: for maxResults >= 1 and concurrency >= 1 the ResultSet never holds
\* more than maxResults + concurrency - 1 entries; the entries it holds and
\* the candidates in flight together never exceed that number, so once the
\* ResultSet has reached maxResults at most concurrency - 1 candidates can
\* still be appended.
C33_OvershootBoundedByConcurrency ==
    (opts.maxResults >= 1 /\ opts.concurrency >= 1) =>
       /\ Len(results) <= opts.maxResults + opts.concurrency - 1
       /\ Len(results) + CandidatesInFlight <= opts.maxResults + opts.concurrency - 1
       /\ Len(results) >= opts.maxResults => CandidatesInFlight <= opts.concurrency - 1

\* a run with two workers has returned one entry more than maxResults
C33_Witness ==
    /\ pc = "returned"
    /\ opts.concurrency = 2
    /\ opts.maxResults >= 1
    /\ Len(results) = opts.maxResults + opts.concurrency - 1

\* C34: the candidates in flight are never more than the smaller of
\* concurrency and the number of ids of the current page, and they are
\* candidates of different positions of that page.
C34_InFlightBoundedByConcurrencyAndPage ==
    /\ CandidatesInFlight <= Min(opts.concurrency, Len(names))
    /\ \A w \in Workers :
          wpc[w] \in {"meta", "lines"} =>
             /\ w <= opts.concurrency
             /\ wcur[w] < Len(names)
             /\ \A v \in Workers :
                   (v # w /\ wpc[v] \in {"meta", "lines"}) => wcur[v] # wcur[w]

\* two workers and a page of one id: one candidate is in flight
C34_Witness ==
    /\ pc = "workers"
    /\ opts.concurrency = 2
    /\ Len(names) = 1
    /\ CandidatesInFlight = 1

\* two workers and a page of three ids: two candidates are in flight
C34_ConcurrencyReached ==
    /\ pc = "workers"
    /\ opts.concurrency = 2
    /\ Len(names) = 3
    /\ CandidatesInFlight = 2

\* the takes whose evaluation has finished, in the order they were made
FinishedTakes ==
    SelectSeq([i \in 1..Len(takenLog) |-> [take |-> takenLog[i], inFlight |-> InFlight(i)]],
              LAMBDA t : ~t.inFlight)

\* the infos of the finished takes that passed every filter, in that order
AcceptedInTakeOrder ==
    LET passed == SelectSeq(FinishedTakes, LAMBDA t : Evaluate(t.take.name) # Null)
    IN [k \in 1..Len(passed) |-> Evaluate(passed[k].take.name)]

\* takes are made in feed order: by page, then by position within the page
TakenInFeedOrder ==
    \A i, j \in 1..Len(takenLog) :
       i < j =>
          \/ takenLog[i].page < takenLog[j].page
          \/ /\ takenLog[i].page = takenLog[j].page
             /\ takenLog[i].index < takenLog[j].index

\* C35: with one worker the run is sequential.  The ResultSet never exceeds
\* maxResults, candidates are taken in feed order (page, then position in
\* the page), and the ResultSet is the accepted candidates in that order.
C35_OneWorkerIsSequential ==
    opts.concurrency = 1 =>
       /\ Len(results) <= opts.maxResults
       /\ CandidatesInFlight <= 1
       /\ TakenInFeedOrder
       /\ results = AcceptedInTakeOrder

\* a one-worker run has returned two different packages, full, after it
\* turned a candidate away between them or took them from two pages
C35_Witness ==
    /\ opts.concurrency = 1
    /\ pc = "returned"
    /\ Len(results) = 2
    /\ opts.maxResults = 2
    /\ results[1].name # results[2].name
    /\ Len(takenLog) >= 3

\* runs whose budgets may also be zero or negative, without text and
\* executable filter
OptionsAnyBudget ==
    [changesLimit : 1..MaxRows,
     maxResults : (0 - 1)..MaxResultsBound,
     daysBack : {7},
     concurrency : 0..MaxConcurrency,
     searchTerms : {<<>>},
     partialMatch : {TRUE},
     minJsLines : MinJsLinesChoices,
     maxPages : (0 - 1)..MaxPagesBound,
     requireBin : {FALSE}]

InitAnyBudget ==
    /\ opts \in OptionsAnyBudget
    /\ changeLog \in ChangeLogs
    /\ Idle
    /\ unit = NoUnit

BudgetSpec == InitAnyBudget /\ [][Next]_vars

\* C36: when maxResults <= 0 or maxPages <= 0 the run makes no page fetch,
\* evaluates no candidate and holds an empty ResultSet, before and after it
\* has returned; it never waits for a page or a worker and never aborts.
C36_NoBudgetNoWork ==
    (opts.maxResults <= 0 \/ opts.maxPages <= 0) =>
       /\ fetchLog = <<>>
       /\ takenLog = <<>>
       /\ results = <<>>
       /\ pageNumber = 0
       /\ pc \in {"idle", "returned"}
       /\ \A w \in Workers : wpc[w] = "none"

\* a run with a page budget of 0, a result budget and a worker has returned
C36_Witness ==
    /\ pc = "returned"
    /\ opts.maxPages = 0
    /\ opts.maxResults >= 1
    /\ opts.concurrency >= 1
    /\ results = <<>>

\* a run with a negative result budget has returned
C36_NegativeBudgetReached ==
    /\ pc = "returned"
    /\ opts.maxResults < 0
    /\ opts.maxPages >= 1
    /\ results = <<>>

\* with this step worker w is through with the candidate it held
CandidateSettles(w) ==
    /\ wpc[w] \in {"meta", "lines"}
    /\ wpc'[w] = "done" \/ wcur'[w] # wcur[w]

\* C37: the step that settles a candidate which is absent, rejected by a
\* filter or failed leaves the ResultSet and the cursor as they are; the step
\* that settles an accepted candidate appends exactly its one entry and
\* leaves the cursor as it is; and no other step changes the ResultSet.
C37_OnlyAcceptanceChangesResultSet ==
    [][/\ \A w \in Workers :
             CandidateSettles(w) =>
                LET info == Evaluate(names[wcur[w] + 1])
                IN /\ info = Null => results' = results
                   /\ info # Null => results' = Append(results, info)
                   /\ lastSeq' = lastSeq
                   /\ newLastSeq' = newLastSeq
       /\ results' # results =>
             \E w \in Workers :
                CandidateSettles(w) /\ Evaluate(names[wcur[w] + 1]) # Null]_vars

\* an absent candidate, a failed one and one turned away by the size filter
\* have been settled, and one candidate was accepted
C37_Witness ==
    /\ opts.minJsLines = Some(2)
    /\ Len(results) = 1
    /\ \A n \in {PkgGone, PkgThrow, PkgABC} :
          \E i \in 1..Len(takenLog) : takenLog[i].name = n /\ ~InFlight(i)
    /\ getIfFirstVersionRecent(PkgThrow, opts.daysBack, Now).threw
    /\ getIfFirstVersionRecent(PkgGone, opts.daysBack, Now).info = Null
    /\ PassedEarlierStages(PkgABC) /\ Evaluate(PkgABC) = Null

\* C38: whenever parseDateRange returns instead of throwing, the days it
\* returns is an integer of at least 1, whatever the input.
C38_ParsedDaysAtLeastOne ==
    (unit.kind = "parse" /\ unit.out # None /\ ~unit.out[1].threw) =>
       unit.out[1].days \in Nat \ {0}

\* the call has split the table: its first post was the title alone
Chunked == unit.kind = "post" /\ unit.stage \in {"chunk", "last", "returned", "threw"} /\ unit.posts # <<>> /\ unit.posts[1] = TitleText

\* the positions of the rows of the posts after the first, in posting order
RECURSIVE PostedRows(_)
PostedRows(posts) ==
    IF posts = <<>> THEN <<>>
    ELSE [k \in 1..Len(SelectSeq(Head(posts).lines, LAMBDA l : l.kind = "row")) |->
             SelectSeq(Head(posts).lines, LAMBDA l : l.kind = "row")[k].pos]
         \o PostedRows(Tail(posts))

\* the post begins with the header line and the separator line
BeginsWithHeader(post) ==
    /\ Len(post.lines) >= 2
    /\ post.lines[1].kind = "header"
    /\ post.lines[2].kind = "separator"

\* the posts of a split table: the title first, then chunks that begin with
\* the header and together hold the rows 1, 2, ... once each and in order,
\* all of them once the call has returned
RowsPostedOnceInOrder ==
    Chunked =>
       /\ \A k \in 2..Len(unit.posts) : BeginsWithHeader(unit.posts[k])
       /\ LET rows == PostedRows(Tail(unit.posts))
          IN /\ \A k \in 1..Len(rows) : rows[k] = k
             /\ Len(rows) <= Len(unit.packages)
             /\ unit.stage = "returned" => Len(rows) = Len(unit.packages)

\* no post of a split table holds the header and nothing else
NoHeaderOnlyChunk ==
    Chunked => \A k \in 2..Len(unit.posts) : Len(unit.posts[k].lines) > 2

\* C39: when the table is split into several posts, the title is posted
\* first, every chunk begins with the header and the separator, the rows
\* are posted once each and in their order, and no chunk holds the header
\* alone.
C39_ChunksCoverRowsOnce == RowsPostedOnceInOrder /\ NoHeaderOnlyChunk

\* a call whose table was split over two chunks, both with rows, has returned
C39_SplitReached ==
    /\ Chunked
    /\ unit.stage = "returned"
    /\ Len(unit.posts) = 3
    /\ NoHeaderOnlyChunk

\* the first row fits into a chunk together with the header
FirstRowFits ==
    LET lines == toMarkdownTable(unit.packages)
    IN Len(lines) >= 3 => ~ChunkOverflows(ChunkHeader(lines), lines[3])

\* a chunk of the header alone is posted only when the first row does not
\* fit into a chunk, and then it is the first chunk
HeaderOnlyChunkOnlyForOverlongFirstRow ==
    Chunked =>
       \A k \in 2..Len(unit.posts) :
          Len(unit.posts[k].lines) <= 2 => (k = 2 /\ ~FirstRowFits)

====
